---- MODULE Spec2Model ----
(***************************************************************************)
(* Runtime filters of the vectorized scan node: the consumer filter state  *)
(* machine (exprs/runtime_filter.h), the scan node's acquisition of        *)
(* filters, the late-arrival path and the normalization of the conjunct    *)
(* tree into per-column sinks (vec/exec/scan/vscan_node.cpp).              *)
(***************************************************************************)
EXTENDS Integers, Sequences, FiniteSets, TLC

(***************************************************************************)
(* Bounds of the model.                                                    *)
(***************************************************************************)
\* column values are TYPE_MIN .. TYPE_MAX of a small integer type
MaxVal == 2
\* query option max_pushdown_conditions_per_column (vscan_node.cpp:107-111)
max_pushdown_conditions_per_column == 2

Vals == 0 .. MaxVal
\* the SQL NULL (a nullptr value / a null cell)
NullV == 0 - 1
Cells == Vals \cup {NullV}

(***************************************************************************)
(* Slots of the output tuple. Slot 1 is a key column, slot 2 is not.       *)
(***************************************************************************)
Slots == {1, 2}

SlotIsNullable(s) == TRUE

PushDownTypes == {"UNACCEPTABLE", "ACCEPTABLE", "PARTIAL_ACCEPTABLE"}

(***************************************************************************)
(* ColumnValueRange: the accepted non-null values, whether they are kept   *)
(* as a fixed-value set, and the contains-null bit.                        *)
(***************************************************************************)
WholeRange(nullable) == [fixed |-> FALSE, vals |-> Vals, contain_null |-> nullable]

create_empty_column_value_range == [fixed |-> FALSE, vals |-> {}, contain_null |-> FALSE]

is_fixed_value_range(r) == r.fixed /\ r.vals # {}

is_empty_value_range(r) == r.vals = {} /\ ~r.contain_null

get_fixed_value_size(r) == IF is_fixed_value_range(r) THEN Cardinality(r.vals) ELSE 0

add_fixed_value_range(r, v) ==
    [fixed |-> TRUE,
     vals |-> (IF is_fixed_value_range(r) THEN r.vals ELSE {}) \cup {v},
     contain_null |-> FALSE]

remove_fixed_value_range(r, v) ==
    [r EXCEPT !.vals = r.vals \ {v}, !.fixed = (r.vals \ {v}) # {}]

\* SQLFilterOp applied to a value: the values x with x <op> v
FilterOpVals(op, v) ==
    CASE op = "FILTER_LARGER" -> {x \in Vals : x > v}
      [] op = "FILTER_LARGER_OR_EQUAL" -> {x \in Vals : x >= v}
      [] op = "FILTER_LESS" -> {x \in Vals : x < v}
      [] op = "FILTER_LESS_OR_EQUAL" -> {x \in Vals : x <= v}
      [] OTHER -> Vals

add_value_range(r, op, v) ==
    LET nv == r.vals \cap FilterOpVals(op, v)
    IN [fixed |-> r.fixed /\ nv # {}, vals |-> nv, contain_null |-> FALSE]

set_contain_null(r, cn) ==
    [fixed |-> FALSE, vals |-> IF cn THEN {} ELSE Vals, contain_null |-> cn]

intersection(r, o) ==
    IF is_empty_value_range(r) \/ is_empty_value_range(o)
    THEN create_empty_column_value_range
    ELSE IF is_fixed_value_range(r) \/ is_fixed_value_range(o)
         THEN LET nv == r.vals \cap o.vals
              IN IF nv # {} THEN [fixed |-> TRUE, vals |-> nv, contain_null |-> FALSE]
                 ELSE create_empty_column_value_range
         ELSE [fixed |-> FALSE, vals |-> r.vals \cap o.vals,
               contain_null |-> r.contain_null /\ o.contain_null]

\* whether a cell passes a value range pushed to the storage layer
RangeAccepts(r, x) == IF x = NullV THEN r.contain_null ELSE x \in r.vals

to_olap_filter_type(fn_name, opposite) ==
    CASE fn_name = "lt" -> IF opposite THEN "FILTER_LARGER" ELSE "FILTER_LESS"
      [] fn_name = "le" -> IF opposite THEN "FILTER_LARGER_OR_EQUAL" ELSE "FILTER_LESS_OR_EQUAL"
      [] fn_name = "gt" -> IF opposite THEN "FILTER_LESS" ELSE "FILTER_LARGER"
      [] fn_name = "ge" -> IF opposite THEN "FILTER_LESS_OR_EQUAL" ELSE "FILTER_LARGER_OR_EQUAL"
      [] OTHER -> "FILTER_IN"

(***************************************************************************)
(* Expressions (VExpr). Every node is a record with the same fields:       *)
(*   node        TExprNodeType of the node                                 *)
(*   fn          fn().name.function_name                                   *)
(*   slot        slot id of the child that is a SLOT_REF (0: none)         *)
(*   slot_child  index of that child (slot_ref_child)                      *)
(*   cast        the casts around the slot reference in that child         *)
(*   other_const whether the other child is a constant (ColumnConst)       *)
(*   lit         the constant's value, NullV for a NULL literal            *)
(*   vals        IN list / values a bloom, bitmap or function accepts      *)
(*   null_in_set InState::null_in_set                                      *)
(*   not_in      VInPredicate::is_not_in()                                 *)
(*   hybrid      get_set_func() != nullptr (a runtime filter's direct IN)  *)
(*   rf          id of the runtime filter the node wraps (0: none)         *)
(*   kids        children that are predicates                              *)
(***************************************************************************)
MkExpr(node, fn, slot, slot_child, lit, vals, null_in_set, not_in, hybrid, rf, kids) ==
    [node |-> node, fn |-> fn, slot |-> slot, slot_child |-> slot_child,
     cast |-> "none", other_const |-> TRUE, lit |-> lit, vals |-> vals, null_in_set |-> null_in_set,
     not_in |-> not_in, hybrid |-> hybrid, rf |-> rf, kids |-> kids]

\* a null VExpr*
NullExpr == MkExpr("NULLPTR", "", 0, 0, 0, {}, FALSE, FALSE, FALSE, 0, <<>>)

ConstExpr(v) == MkExpr("BOOL_LITERAL", "", 0, 0, v, {}, FALSE, FALSE, FALSE, 0, <<>>)

InExpr(s, vs, nullin, notin) ==
    MkExpr("IN_PRED", IF notin THEN "not_in" ELSE "in", s, 0, 0, vs, nullin, notin, FALSE, 0, <<>>)

BinExpr(fn, s, child, v) ==
    MkExpr("BINARY_PRED", fn, s, child, v, {}, FALSE, FALSE, FALSE, 0, <<>>)

FnExpr(fn, s, vs) ==
    MkExpr("FUNCTION_CALL", fn, s, 0, 0, vs, FALSE, FALSE, FALSE, 0, <<>>)

BloomExpr(s, vs, f) == MkExpr("BLOOM_PRED", "", s, 0, 0, vs, FALSE, FALSE, FALSE, f, <<>>)

BitmapExpr(s, vs, f) == MkExpr("BITMAP_PRED", "", s, 0, 0, vs, FALSE, FALSE, FALSE, f, <<>>)

\* the VDirectInPredicate a runtime filter of kind in-set pushes
DirectInExpr(s, vs, f) == MkExpr("IN_PRED", "in", s, 0, 0, vs, FALSE, FALSE, TRUE, f, <<>>)

CompoundExpr(fn, ks) ==
    MkExpr("COMPOUND_PRED", fn, 0, 0, 0, {}, FALSE, FALSE, FALSE, 0, ks)

AndExpr(l, r) == CompoundExpr("and", <<l, r>>)

\* the leaf e with its slot reference under the casts c: "date" is
\* CAST(col AS DATE), "date_datetime" is CAST(CAST(col AS DATE) AS DATETIME),
\* "bigint" is CAST(col AS BIGINT)
WithCast(e, c) == [e EXCEPT !.cast = c]

Casts == {"none", "date", "date_datetime", "bigint"}

\* the declared type of a column: every column of the family is a datetime
SlotType(s) == "TYPE_DATETIME"

\* type() of the child that contains the slot reference
ChildType(e) ==
    CASE e.cast = "date" -> "TYPE_DATE"
      [] e.cast = "date_datetime" -> "TYPE_DATETIME"
      [] e.cast = "bigint" -> "TYPE_BIGINT"
      [] OTHER -> SlotType(e.slot)

\* node_type() of the child that contains the slot reference
ChildNodeType(e) == IF e.cast = "none" THEN "SLOT_REF" ELSE "CAST_EXPR"

is_date_type(t) == t \in {"TYPE_DATE", "TYPE_DATETIME"}

is_datetime_type(t) == t = "TYPE_DATETIME"

\* ignore_cast: a cast between date types is looked through
ignore_cast(s, e) == is_date_type(SlotType(s)) /\ is_date_type(ChildType(e))

\* datetimes are counted in half days: the date of v is the midnight before v
DayLen == 2

DateOf(v) == v - (v % DayLen)

\* what the casts around the slot reference make of the column's value
CastValue(c, v) ==
    IF v = NullV THEN NullV
    ELSE IF c \in {"date", "date_datetime"} THEN DateOf(v)
    ELSE v

is_and_expr(e) == e.node = "COMPOUND_PRED" /\ e.fn = "and"

is_constant(e) == e.node = "BOOL_LITERAL"

(***************************************************************************)
(* Evaluation of a predicate on a row in SQL's three-valued logic:         *)
(* "T", "F" or "N" (NULL). A conjunct keeps a row iff it evaluates to "T". *)
(***************************************************************************)
Not3(a) == CASE a = "T" -> "F" [] a = "F" -> "T" [] OTHER -> "N"

And3(a, b) == IF a = "F" \/ b = "F" THEN "F" ELSE IF a = "T" /\ b = "T" THEN "T" ELSE "N"

Or3(a, b) == IF a = "T" \/ b = "T" THEN "T" ELSE IF a = "F" /\ b = "F" THEN "F" ELSE "N"

Bool3(b) == IF b THEN "T" ELSE "F"

Compare(fn, a, b) ==
    CASE fn = "eq" -> a = b
      [] fn = "ne" -> a # b
      [] fn = "lt" -> a < b
      [] fn = "le" -> a <= b
      [] fn = "gt" -> a > b
      [] fn = "ge" -> a >= b
      [] OTHER -> FALSE

EvalLeaf(e, row) ==
    LET x == IF e.slot \in Slots THEN CastValue(e.cast, row[e.slot]) ELSE NullV
    IN CASE e.node = "BOOL_LITERAL" ->
              (IF e.lit = NullV THEN "N" ELSE Bool3(e.lit = 1))
         [] e.node = "IN_PRED" ->
              (IF x = NullV THEN "N"
               ELSE IF x \in e.vals THEN Bool3(~e.not_in)
               ELSE IF e.null_in_set THEN "N" ELSE Bool3(e.not_in))
         [] e.node = "BINARY_PRED" ->
              (IF x = NullV \/ e.lit = NullV THEN "N"
               ELSE IF e.slot_child = 0 THEN Bool3(Compare(e.fn, x, e.lit))
               ELSE Bool3(Compare(e.fn, e.lit, x)))
         [] e.node = "FUNCTION_CALL" ->
              (IF e.fn = "is_null_pred" THEN Bool3(x = NullV)
               ELSE IF e.fn = "is_not_null_pred" THEN Bool3(x # NullV)
               ELSE IF x = NullV THEN "N" ELSE Bool3(x \in e.vals))
         [] e.node \in {"BLOOM_PRED", "BITMAP_PRED"} ->
              Bool3(x # NullV /\ x \in e.vals)
         [] OTHER -> "N"

RECURSIVE Eval3(_, _)
Eval3(e, row) ==
    IF e.node = "COMPOUND_PRED"
    THEN CASE e.fn = "and" -> And3(Eval3(e.kids[1], row), Eval3(e.kids[2], row))
           [] e.fn = "or" -> Or3(Eval3(e.kids[1], row), Eval3(e.kids[2], row))
           [] e.fn = "not" -> Not3(Eval3(e.kids[1], row))
           [] OTHER -> "N"
    ELSE EvalLeaf(e, row)

\* a null conjunct context filters nothing
TreeAccepts(e, row) == e = NullExpr \/ Eval3(e, row) = "T"

Rows == [Slots -> Cells]

(***************************************************************************)
(* The virtual hooks of the scan node's subclass (what the storage layer   *)
(* can take): the push-down type of IS NULL, bloom, bitmap and function    *)
(* predicates, the key columns, enable_function_pushdown.                  *)
(***************************************************************************)
VirtProfiles ==
    {[is_null |-> p, bloom |-> p, bitmap |-> p, function |-> p, keys |-> k,
      enable_function_pushdown |-> p # "UNACCEPTABLE", common_expr |-> FALSE] :
        p \in PushDownTypes, k \in {{}, {1}}}

is_key_column(vt, s) == s \in vt.keys

should_push_down_is_null_predicate(vt) == vt.is_null

should_push_down_bloom_filter(vt) == vt.bloom

should_push_down_bitmap_filter(vt) == vt.bitmap

should_push_down_function_filter(vt, e) ==
    IF e.fn = "like" THEN vt.function ELSE "UNACCEPTABLE"

should_push_down_common_expr(vt) == vt.common_expr

(***************************************************************************)
(* The sinks normalization fills (members of VScanNode).                   *)
(***************************************************************************)
InitSinks ==
    [slot_id_to_value_range |-> [s \in Slots |-> WholeRange(SlotIsNullable(s))],
     not_in_value_ranges |-> <<>>,
     compound_value_ranges |-> <<>>,
     in_filters |-> <<>>,
     bloom_filters |-> <<>>,
     bitmap_filters |-> <<>>,
     push_down_functions |-> <<>>,
     eos |-> FALSE]

SetRange(st, s, r) ==
    [st EXCEPT !.slot_id_to_value_range = [@ EXCEPT ![s] = r]]

\* the fixed-value range holding the values of a set
RECURSIVE FixedRangeOf(_, _)
FixedRangeOf(r, vs) ==
    IF vs = {} THEN r
    ELSE LET v == CHOOSE x \in vs : TRUE
         IN FixedRangeOf(add_fixed_value_range(r, v), vs \ {v})

\* a removal that leaves the fixed-value set as it is
RemoveFixedKeep(r, vs) == r

RECURSIVE RemoveFixed(_, _)
RemoveFixed(r, vs) ==
    IF vs = {} THEN r
    ELSE LET v == CHOOSE x \in vs : TRUE
         IN RemoveFixed(remove_fixed_value_range(r, v), vs \ {v})

should_push_down_binary_predicate(e, fn_checker) ==
    IF e.fn \notin fn_checker THEN "UNACCEPTABLE"
    ELSE IF e.slot \in Slots /\ ~e.other_const THEN "UNACCEPTABLE"
    ELSE "ACCEPTABLE"

should_push_down_in_predicate(e, is_not_in) ==
    IF e.not_in # is_not_in THEN "UNACCEPTABLE" ELSE "ACCEPTABLE"

BinaryFns == {"eq", "ne", "lt", "le", "gt", "ge"}

\* _is_predicate_acting_on_slot taking every leaf on a column, whatever the
\* type of the child that holds the column
is_predicate_acting_on_slot_untyped(e) == e.slot \in Slots

\* _is_predicate_acting_on_slot: the checker finds a slot reference under the
\* casts of a child; a child of another type than the column's passes only
\* through ignore_cast, and a cast that gives a datetime again does not pass
is_predicate_acting_on_slot(e) ==
    /\ e.slot \in Slots
    /\ IF ChildType(e) # SlotType(e.slot)
       THEN ignore_cast(e.slot, e)
       ELSE ~(is_datetime_type(ChildType(e)) /\ ChildNodeType(e) = "CAST_EXPR")

\* a constant false or NULL that is taken off the tree without ending the scan
eval_const_conjuncts_no_eos(e, st) ==
    IF is_constant(e) /\ (e.lit = NullV \/ e.lit = 0)
    THEN [st |-> st, pdt |-> "ACCEPTABLE"]
    ELSE [st |-> st, pdt |-> "UNACCEPTABLE"]

\* every constant is taken off the tree, a false or NULL one ends the scan
eval_const_conjuncts_fold_true(e, st) ==
    IF is_constant(e)
    THEN [st |-> [st EXCEPT !.eos = @ \/ e.lit = NullV \/ e.lit = 0], pdt |-> "ACCEPTABLE"]
    ELSE [st |-> st, pdt |-> "UNACCEPTABLE"]

\* _eval_const_conjuncts
eval_const_conjuncts(e, st) ==
    IF is_constant(e) /\ (e.lit = NullV \/ e.lit = 0)
    THEN [st |-> [st EXCEPT !.eos = TRUE], pdt |-> "ACCEPTABLE"]
    ELSE [st |-> st, pdt |-> "UNACCEPTABLE"]

\* an _normalize_in_and_eq_predicate that applies the cap to every IN
\* predicate and keeps a capped predicate in the tree
normalize_in_and_eq_predicate_capped(e, s, st) ==
    LET range == st.slot_id_to_value_range[s]
        temp_range == create_empty_column_value_range
    IN IF e.node = "IN_PRED"
       THEN IF ~e.not_in /\ Cardinality(e.vals) > max_pushdown_conditions_per_column
            THEN [st |-> [st EXCEPT !.in_filters = Append(@, [slot |-> s, vals |-> e.vals])],
                  pdt |-> "PARTIAL_ACCEPTABLE"]
            ELSE IF ~e.hybrid /\ should_push_down_in_predicate(e, FALSE) = "UNACCEPTABLE"
            THEN [st |-> st, pdt |-> "UNACCEPTABLE"]
            ELSE [st |-> SetRange(st, s, intersection(range, FixedRangeOf(temp_range, e.vals))),
                  pdt |-> "ACCEPTABLE"]
       ELSE IF e.node = "BINARY_PRED"
       THEN LET temp_pdt == should_push_down_binary_predicate(e, {"eq"})
            IN IF temp_pdt = "UNACCEPTABLE" THEN [st |-> st, pdt |-> "UNACCEPTABLE"]
               ELSE IF e.lit # NullV
               THEN [st |-> SetRange(st, s,
                               intersection(range, add_fixed_value_range(temp_range, e.lit))),
                     pdt |-> temp_pdt]
               ELSE [st |-> st, pdt |-> temp_pdt]
       ELSE [st |-> st, pdt |-> "UNACCEPTABLE"]

\* _normalize_in_and_eq_predicate
normalize_in_and_eq_predicate(e, s, st) ==
    LET range == st.slot_id_to_value_range[s]
        temp_range == create_empty_column_value_range
    IN IF e.node = "IN_PRED"
       THEN IF e.hybrid /\ Cardinality(e.vals) > max_pushdown_conditions_per_column
            THEN [st |-> [st EXCEPT !.in_filters = Append(@, [slot |-> s, vals |-> e.vals])],
                  pdt |-> "ACCEPTABLE"]
            ELSE IF ~e.hybrid /\ should_push_down_in_predicate(e, FALSE) = "UNACCEPTABLE"
            THEN [st |-> st, pdt |-> "UNACCEPTABLE"]
            ELSE [st |-> SetRange(st, s, intersection(range, FixedRangeOf(temp_range, e.vals))),
                  pdt |-> "ACCEPTABLE"]
       ELSE IF e.node = "BINARY_PRED"
       THEN LET temp_pdt == should_push_down_binary_predicate(e, {"eq"})
            IN IF temp_pdt = "UNACCEPTABLE" THEN [st |-> st, pdt |-> "UNACCEPTABLE"]
               ELSE IF e.lit # NullV
               THEN [st |-> SetRange(st, s,
                               intersection(range, add_fixed_value_range(temp_range, e.lit))),
                     pdt |-> temp_pdt]
               ELSE [st |-> st, pdt |-> temp_pdt]
       ELSE [st |-> st, pdt |-> "UNACCEPTABLE"]

\* a tail that records the not-in range also when the range is a fixed-value set
NotInFinishAlwaysRecord(s, st, is_fixed_range, not_in_range, temp_pdt) ==
    IF is_fixed_range \/ get_fixed_value_size(not_in_range) <= max_pushdown_conditions_per_column
    THEN [st |-> [st EXCEPT !.not_in_value_ranges =
                                Append(@, [slot |-> s, vals |-> not_in_range.vals])],
          pdt |-> temp_pdt]
    ELSE [st |-> st, pdt |-> "UNACCEPTABLE"]

\* the tail of _normalize_not_in_and_not_eq_predicate (lines 987-994)
NotInFinish(s, st, is_fixed_range, not_in_range, temp_pdt) ==
    IF is_fixed_range \/ get_fixed_value_size(not_in_range) <= max_pushdown_conditions_per_column
    THEN [st |-> IF ~is_fixed_range
                 THEN [st EXCEPT !.not_in_value_ranges =
                                     Append(@, [slot |-> s, vals |-> not_in_range.vals])]
                 ELSE st,
          pdt |-> temp_pdt]
    ELSE [st |-> st, pdt |-> "UNACCEPTABLE"]

normalize_not_in_and_not_eq_predicate(e, s, st) ==
    LET range == st.slot_id_to_value_range[s]
        is_fixed_range == is_fixed_value_range(range)
        not_in_range == create_empty_column_value_range
    IN IF e.node = "IN_PRED"
       THEN IF should_push_down_in_predicate(e, TRUE) = "UNACCEPTABLE"
            THEN [st |-> st, pdt |-> "UNACCEPTABLE"]
            ELSE LET st1 == IF ~is_fixed_range /\ e.null_in_set
                            THEN [st EXCEPT !.eos = TRUE] ELSE st
                 IN IF is_fixed_range
                    THEN NotInFinish(s, SetRange(st1, s, RemoveFixed(range, e.vals)),
                                     is_fixed_range, not_in_range, "ACCEPTABLE")
                    ELSE NotInFinish(s, st1, is_fixed_range,
                                     FixedRangeOf(not_in_range, e.vals), "ACCEPTABLE")
       ELSE IF e.node = "BINARY_PRED"
       THEN LET temp_pdt == should_push_down_binary_predicate(e, {"ne"})
            IN IF temp_pdt = "UNACCEPTABLE" THEN [st |-> st, pdt |-> "UNACCEPTABLE"]
               ELSE IF e.lit = NullV
               THEN NotInFinish(s, st, is_fixed_range, not_in_range, temp_pdt)
               ELSE IF is_fixed_range
               THEN NotInFinish(s, SetRange(st, s, remove_fixed_value_range(range, e.lit)),
                                is_fixed_range, not_in_range, temp_pdt)
               ELSE NotInFinish(s, st, is_fixed_range,
                                add_fixed_value_range(not_in_range, e.lit), temp_pdt)
       ELSE [st |-> st, pdt |-> "UNACCEPTABLE"]

normalize_is_null_predicate(vt, e, s, st) ==
    LET temp_pdt == should_push_down_is_null_predicate(vt)
        range == st.slot_id_to_value_range[s]
        temp_range == create_empty_column_value_range
    IN IF temp_pdt = "UNACCEPTABLE" THEN [st |-> st, pdt |-> "UNACCEPTABLE"]
       ELSE IF e.node = "FUNCTION_CALL" /\ e.fn = "is_null_pred"
       THEN [st |-> SetRange(st, s, intersection(range, set_contain_null(temp_range, TRUE))),
             pdt |-> temp_pdt]
       ELSE IF e.node = "FUNCTION_CALL" /\ e.fn = "is_not_null_pred"
       THEN [st |-> SetRange(st, s, intersection(range, set_contain_null(temp_range, FALSE))),
             pdt |-> temp_pdt]
       ELSE [st |-> st, pdt |-> "UNACCEPTABLE"]

normalize_noneq_binary_predicate(e, s, st) ==
    LET range == st.slot_id_to_value_range[s]
        temp_pdt == should_push_down_binary_predicate(e, BinaryFns \ {"ne", "eq"})
    IN IF e.node = "BINARY_PRED" /\ temp_pdt # "UNACCEPTABLE" /\ e.lit # NullV
       THEN [st |-> SetRange(st, s,
                       add_value_range(range, to_olap_filter_type(e.fn, e.slot_child = 1),
                                       e.lit)),
             pdt |-> temp_pdt]
       ELSE [st |-> st, pdt |-> "UNACCEPTABLE"]

normalize_bitmap_filter(vt, e, s, st) ==
    IF e.node = "BITMAP_PRED" /\ should_push_down_bitmap_filter(vt) # "UNACCEPTABLE"
    THEN [st |-> [st EXCEPT !.bitmap_filters = Append(@, [slot |-> s, vals |-> e.vals])],
          pdt |-> should_push_down_bitmap_filter(vt)]
    ELSE [st |-> st, pdt |-> "UNACCEPTABLE"]

normalize_bloom_filter(vt, e, s, st) ==
    IF e.node = "BLOOM_PRED" /\ should_push_down_bloom_filter(vt) # "UNACCEPTABLE"
    THEN [st |-> [st EXCEPT !.bloom_filters = Append(@, [slot |-> s, vals |-> e.vals])],
          pdt |-> should_push_down_bloom_filter(vt)]
    ELSE [st |-> st, pdt |-> "UNACCEPTABLE"]

normalize_function_filters(vt, e, s, st) ==
    LET opposite == e.node = "COMPOUND_PRED" /\ e.fn = "not"
        fn_expr == IF opposite THEN e.kids[1] ELSE e
        temp_pdt == should_push_down_function_filter(vt, fn_expr)
    IN IF fn_expr.node = "FUNCTION_CALL" /\ temp_pdt # "UNACCEPTABLE"
       THEN [st |-> [st EXCEPT !.push_down_functions =
                         Append(@, [opposite |-> opposite, slot |-> s, vals |-> fn_expr.vals])],
             pdt |-> temp_pdt]
       ELSE [st |-> st, pdt |-> "UNACCEPTABLE"]

normalize_match_predicate(e, s, st) == [st |-> st, pdt |-> "UNACCEPTABLE"]

\* the comparison that holds where fn does not
InverseFn(fn) ==
    CASE fn = "eq" -> "ne" [] fn = "ne" -> "eq" [] fn = "lt" -> "ge"
      [] fn = "ge" -> "lt" [] fn = "gt" -> "le" [] fn = "le" -> "gt"

\* _normalize_binary_in_compound_predicate on a copy of the slot's range: the
\* copy, with the comparison added as a compound value range, is what is kept
normalize_binary_in_compound_predicate(e, s, st) ==
    [slot |-> s, range |-> st.slot_id_to_value_range[s],
     fn |-> IF should_push_down_binary_predicate(e, BinaryFns) = "ACCEPTABLE" /\ e.lit # NullV
            THEN e.fn ELSE "",
     lit |-> e.lit]

\* a compound normalization that makes the first comparison under the
\* compound predicate the column's range
normalize_compound_predicate_hard(e, st) ==
    IF e.node = "COMPOUND_PRED" /\ e.kids[1].node = "BINARY_PRED" /\ e.kids[1].slot \in Slots
    THEN SetRange(st, e.kids[1].slot,
                  add_fixed_value_range(create_empty_column_value_range, e.kids[1].lit))
    ELSE st

RECURSIVE normalize_compound_predicate(_, _)
RECURSIVE CompoundChildren(_, _, _)
CompoundChildren(kids, i, st) ==
    IF i > Len(kids) THEN st
    ELSE LET c == kids[i]
             st1 == IF c.node = "BINARY_PRED" /\ is_predicate_acting_on_slot(c)
                    THEN [st EXCEPT !.compound_value_ranges =
                              Append(@, normalize_binary_in_compound_predicate(c, c.slot, st))]
                    ELSE IF c.node = "COMPOUND_PRED"
                    THEN normalize_compound_predicate(c, st)
                    ELSE st
         IN CompoundChildren(kids, i + 1, st1)

normalize_compound_predicate(e, st) ==
    IF e.node = "COMPOUND_PRED" THEN CompoundChildren(e.kids, 1, st) ELSE st

\* the element of a singleton; {F(x) : x \in {e}} computes e once, as a local
\* variable of the code is computed once
The(S) == CHOOSE x \in S : TRUE

\* one call of the RETURN_IF_PUSH_DOWN chain (vscan_node.cpp:613-636), by position
PushDownCall(i, vt, e, s, st) ==
    CASE i = 1 -> normalize_in_and_eq_predicate(e, s, st)
      [] i = 2 -> normalize_not_in_and_not_eq_predicate(e, s, st)
      [] i = 3 -> normalize_is_null_predicate(vt, e, s, st)
      [] i = 4 -> normalize_noneq_binary_predicate(e, s, st)
      [] i = 5 -> normalize_match_predicate(e, s, st)
      [] i = 6 -> IF is_key_column(vt, s) THEN normalize_bitmap_filter(vt, e, s, st)
                  ELSE [st |-> st, pdt |-> "UNACCEPTABLE"]
      [] i = 7 -> IF is_key_column(vt, s) THEN normalize_bloom_filter(vt, e, s, st)
                  ELSE [st |-> st, pdt |-> "UNACCEPTABLE"]
      [] OTHER -> IF is_key_column(vt, s) /\ vt.enable_function_pushdown
                  THEN normalize_function_filters(vt, e, s, st)
                  ELSE [st |-> st, pdt |-> "UNACCEPTABLE"]

\* the chain of RETURN_IF_PUSH_DOWN calls: the first call that leaves pdt other
\* than UNACCEPTABLE ends it
RECURSIVE PushDownChain(_, _, _, _, _)
PushDownChain(i, vt, e, s, r) ==
    IF i > 8 \/ r.pdt # "UNACCEPTABLE" THEN r
    ELSE The({PushDownChain(i + 1, vt, e, s, r1) : r1 \in {PushDownCall(i, vt, e, s, r.st)}})

\* an end of the leaf branch that takes every ACCEPTABLE leaf off the tree
LeafOutputAnyColumn(vt, e, r) ==
    IF r.pdt = "UNACCEPTABLE" /\ e.node = "COMPOUND_PRED"
    THEN [out |-> e, st |-> normalize_compound_predicate(e, r.st)]
    ELSE IF r.pdt = "ACCEPTABLE"
    THEN [out |-> NullExpr, st |-> r.st]
    ELSE [out |-> e, st |-> r.st]

\* the end of the leaf branch of _normalize_predicate (lines 642-658), r being
\* the sinks and pdt the chain left
LeafOutput(vt, e, r) ==
    IF r.pdt = "UNACCEPTABLE" /\ e.node = "COMPOUND_PRED"
    THEN [out |-> e, st |-> normalize_compound_predicate(e, r.st)]
    ELSE IF r.pdt = "ACCEPTABLE" /\ is_key_column(vt, e.slot)
    THEN [out |-> NullExpr, st |-> r.st]
    ELSE [out |-> e, st |-> r.st]

\* the leaf branch after _eval_const_conjuncts returned r0
LeafAfterConst(vt, e, r0) ==
    IF r0.pdt = "ACCEPTABLE" THEN [out |-> NullExpr, st |-> r0.st]
    ELSE IF is_predicate_acting_on_slot(e)
    THEN The({LeafOutput(vt, e, r) : r \in {PushDownChain(1, vt, e, e.slot, r0)}})
    ELSE LeafOutput(vt, e, r0)

NormalizeLeaf(vt, e, st) ==
    The({LeafAfterConst(vt, e, r0) : r0 \in {eval_const_conjuncts(e, st)}})

\* an AND branch that keeps the and-expression over whatever is left of it
AndOutputKeepNode(e, l, r) ==
    IF l.out # NullExpr \/ r.out # NullExpr
    THEN [out |-> [e EXCEPT !.kids = <<l.out, r.out>>], st |-> r.st]
    ELSE [out |-> NullExpr, st |-> r.st]

\* the AND branch of _normalize_predicate (lines 665-678)
AndOutput(e, l, r) ==
    IF l.out # NullExpr /\ r.out # NullExpr
    THEN [out |-> [e EXCEPT !.kids = <<l.out, r.out>>], st |-> r.st]
    ELSE [out |-> IF l.out # NullExpr THEN l.out ELSE r.out, st |-> r.st]

RECURSIVE normalize_predicate(_, _, _)
RECURSIVE NormalizeRight(_, _, _)
NormalizeRight(vt, e, l) ==
    The({AndOutput(e, l, r) : r \in {normalize_predicate(vt, e.kids[2], l.st)}})

normalize_predicate(vt, e, st) ==
    IF e = NullExpr THEN [out |-> e, st |-> st]
    ELSE IF ~is_and_expr(e) THEN NormalizeLeaf(vt, e, st)
    ELSE The({NormalizeRight(vt, e, l) : l \in {normalize_predicate(vt, e.kids[1], st)}})

\* an end of _normalize_conjuncts that leaves _eos as it is
EosOfRangesUnchanged(st) == st

\* the loop over _slot_id_to_value_range that ends _normalize_conjuncts
EosOfRanges(st) ==
    IF \E s \in Slots : is_empty_value_range(st.slot_id_to_value_range[s])
    THEN [st EXCEPT !.eos = TRUE] ELSE st

\* _normalize_conjuncts on the root of the conjunct context (NullExpr: no context)
NormalizeEnd(n) == [out |-> n.out, st |-> EosOfRanges(n.st)]

normalize_conjuncts(vt, root, eos0) ==
    The({NormalizeEnd(n) :
            n \in {normalize_predicate(vt, root, [InitSinks EXCEPT !.eos = eos0])}})

(***************************************************************************)
(* What the scan emits: a row passes iff the scan is not at EOF, every     *)
(* sink accepts it and the residual conjunct tree evaluates to true.       *)
(***************************************************************************)
SeqAll(q, P(_)) == \A i \in 1 .. Len(q) : P(q[i])

SinksAccept(st, row) ==
    /\ \A s \in Slots : RangeAccepts(st.slot_id_to_value_range[s], row[s])
    /\ SeqAll(st.not_in_value_ranges,
              LAMBDA n : row[n.slot] # NullV /\ row[n.slot] \notin n.vals)
    /\ SeqAll(st.in_filters, LAMBDA n : row[n.slot] \in n.vals)
    /\ SeqAll(st.bloom_filters, LAMBDA n : row[n.slot] \in n.vals)
    /\ SeqAll(st.bitmap_filters, LAMBDA n : row[n.slot] \in n.vals)
    /\ SeqAll(st.push_down_functions,
              LAMBDA n : row[n.slot] # NullV /\ ((row[n.slot] \in n.vals) # n.opposite))

ScanAccepts(st, residual, row) ==
    ~st.eos /\ SinksAccept(st, row) /\ TreeAccepts(residual, row)

(***************************************************************************)
(* State.                                                                  *)
(***************************************************************************)
\* number of runtime filters the scan subscribes to (_runtime_filter_descs)
NumFilters == 2
\* runtime_filter_wait_time_ms: the clock runs from 0 (registration_time_)
WaitTime == 1

Filters == 1 .. NumFilters

RuntimeFilterState == {"READY", "NOT_READY", "TIME_OUT"}

VARIABLES
    enable_pipeline_exec,       \* RuntimeState::enable_pipeline_exec()
    virt,                       \* the virtual hooks of the scan node's subclass
    now,                        \* MonotonicMillis()
    rf_state,                   \* IRuntimeFilter::_rf_state, per filter
    rf_state_atomic,            \* IRuntimeFilter::_rf_state_atomic, per filter
    wrapper,                    \* the consumer's payload (_wrapper), per filter
    last_await,                 \* result of the latest await() on the filter
    scan_pc,                    \* where the scan node is
    acq,                        \* locals of the running _acquire_runtime_filter
    apply_mark,                 \* _runtime_filter_ctxs[i].apply_mark
    blocked_by_rf,              \* _blocked_by_rf
    is_all_rf_applied,          \* _is_all_rf_applied
    rf_vexpr_set,               \* _rf_vexpr_set
    ctxs,                       \* every VExprContext made for the conjuncts
    vconjunct_ctx_ptr,          \* _vconjunct_ctx_ptr (0: null)
    stale_vexpr_ctxs,           \* _stale_vexpr_ctxs
    common_vexpr_ctxs_pushdown, \* _common_vexpr_ctxs_pushdown (0: null)
    sinks,                      \* the sinks normalization filled, and _eos
    orig_root,                  \* the conjunct tree normalization was given
    scanner_ctx,                \* whether _scanner_ctx exists (scanners started)
    block_queue,                \* blocks the scanners queued
    get_next_ret,               \* what the latest get_next returned
    arrived_rf_num,             \* latest *arrived_rf_num
    producer                    \* the build side: the filter values being built and merged

vars == <<enable_pipeline_exec, virt, now, rf_state, rf_state_atomic, wrapper, last_await,
          scan_pc, acq, apply_mark, blocked_by_rf, is_all_rf_applied,
          rf_vexpr_set, ctxs, vconjunct_ctx_ptr, stale_vexpr_ctxs,
          common_vexpr_ctxs_pushdown, sinks, orig_root, scanner_ctx, block_queue,
          get_next_ret, arrived_rf_num, producer>>

filterVars == <<rf_state, rf_state_atomic, wrapper, last_await>>

conjVars == <<rf_vexpr_set, ctxs, vconjunct_ctx_ptr, stale_vexpr_ctxs,
              common_vexpr_ctxs_pushdown>>

scanVars == <<scan_pc, acq, apply_mark, blocked_by_rf, is_all_rf_applied, sinks, orig_root,
              scanner_ctx, block_queue, get_next_ret, arrived_rf_num>>

\* no build side in view
NoProducer == [phase |-> "none"]

(***************************************************************************)
(* IRuntimeFilter.                                                         *)
(***************************************************************************)
is_ready(f) ==
    \/ (~enable_pipeline_exec /\ rf_state[f] = "READY")
    \/ (enable_pipeline_exec /\ rf_state_atomic[f] = "READY")

current_state(f) == IF enable_pipeline_exec THEN rf_state_atomic[f] ELSE rf_state[f]

\* the state word the mode uses is set to s
SetState(f, s) ==
    IF enable_pipeline_exec
    THEN rf_state_atomic' = [rf_state_atomic EXCEPT ![f] = s] /\ UNCHANGED rf_state
    ELSE rf_state' = [rf_state EXCEPT ![f] = s] /\ UNCHANGED rf_state_atomic

\* the wait bound has passed
DeadlinePassed == now >= WaitTime

\* a deadline check that forgets to look at the state it overwrites
StateAfterDeadlineCheckAnyState(f) ==
    IF DeadlinePassed THEN "TIME_OUT" ELSE current_state(f)

\* the state await() and is_ready_or_timeout() leave: at the bound a filter
\* that is still NOT_READY becomes TIME_OUT
StateAfterDeadlineCheck(f) ==
    IF current_state(f) = "NOT_READY" /\ DeadlinePassed THEN "TIME_OUT" ELSE current_state(f)

\* whether await() can return now: the condition-variable wait blocks until
\* READY or the bound, the atomic one never blocks
AwaitReturns(f) == enable_pipeline_exec \/ current_state(f) # "NOT_READY" \/ DeadlinePassed

AwaitResult(f) ==
    CASE StateAfterDeadlineCheck(f) = "READY" -> "ready"
      [] StateAfterDeadlineCheck(f) = "TIME_OUT" -> "timed_out"
      [] OTHER -> "pending"

\* await(): its effect on the filter; the return value is AwaitResult(f) = "ready"
await(f) ==
    /\ SetState(f, StateAfterDeadlineCheck(f))
    /\ last_await' = [last_await EXCEPT ![f] = AwaitResult(f)]

\* an update that signals whatever the state is
update_filter_always(f, payload) ==
    /\ wrapper' = [wrapper EXCEPT ![f] = payload]
    /\ SetState(f, "READY")

\* an update that stores the payload before it looks at the state
update_filter_store_first(f, payload) ==
    /\ wrapper' = [wrapper EXCEPT ![f] = payload]
    /\ IF current_state(f) = "NOT_READY" THEN SetState(f, "READY")
       ELSE UNCHANGED <<rf_state, rf_state_atomic>>

\* update_filter() followed by signal(): an update after a terminal state is discarded
update_filter(f, payload) ==
    IF current_state(f) = "NOT_READY"
    THEN wrapper' = [wrapper EXCEPT ![f] = payload] /\ SetState(f, "READY")
    ELSE UNCHANGED <<wrapper, rf_state, rf_state_atomic>>

\* the kind of each filter and the slot it is bound to
FilterKind(f) == IF f = 1 THEN "IN_FILTER" ELSE "BLOOM_FILTER"

FilterSlot(f) == 1

\* get_push_expr_ctxs / get_prepared_vexprs: the predicate of a ready filter
PushExpr(f, payload) ==
    IF FilterKind(f) = "IN_FILTER" THEN DirectInExpr(FilterSlot(f), payload, f)
    ELSE IF payload = {} THEN [ConstExpr(0) EXCEPT !.rf = f]
    ELSE BloomExpr(FilterSlot(f), payload, f)

(***************************************************************************)
(* The conjunct contexts of the scan node.                                 *)
(***************************************************************************)
\* what the producers can publish: an empty build side, a small set and a
\* set larger than max_pushdown_conditions_per_column
Payloads == {{}, {1}, Vals}

\* the conjuncts the plan gives the scan (NullExpr: none)
BaseConjuncts == {NullExpr, BinExpr("ge", 1, 0, 1), BinExpr("le", 2, 0, 1)}

ConjState == [rf_vexpr_set |-> rf_vexpr_set, ctxs |-> ctxs,
              vconjunct_ctx_ptr |-> vconjunct_ctx_ptr,
              stale_vexpr_ctxs |-> stale_vexpr_ctxs]

RootOf(c) == IF c.vconjunct_ctx_ptr = 0 THEN NullExpr ELSE c.ctxs[c.vconjunct_ctx_ptr].root

\* the loop of _append_rf_into_conjuncts (lines 393-422)
RECURSIVE AndChain(_, _, _, _)
RECURSIVE AndChainDropRoot(_, _, _, _)

\* the loop starting each new and-expression from the predicate alone
AndChainDropRoot(last_expr, vexprs, j, set) ==
    IF j > Len(vexprs) THEN [last_expr |-> last_expr, set |-> set]
    ELSE IF vexprs[j].rf \in set THEN AndChainDropRoot(last_expr, vexprs, j + 1, set)
    ELSE AndChainDropRoot(vexprs[j], vexprs, j + 1, set \cup {vexprs[j].rf})

AndChain(last_expr, vexprs, j, set) ==
    IF j > Len(vexprs) THEN [last_expr |-> last_expr, set |-> set]
    ELSE IF vexprs[j].rf \in set THEN AndChain(last_expr, vexprs, j + 1, set)
    ELSE AndChain(AndExpr(last_expr, vexprs[j]), vexprs, j + 1, set \cup {vexprs[j].rf})

\* an append that drops the replaced context instead of keeping it
append_rf_into_conjuncts_drop_prior(c, vexprs) ==
    IF vexprs = <<>> THEN c
    ELSE LET has == c.vconjunct_ctx_ptr # 0
             r == IF has THEN AndChain(RootOf(c), vexprs, 1, c.rf_vexpr_set)
                  ELSE AndChain(vexprs[1], vexprs, 2, c.rf_vexpr_set \cup {vexprs[1].rf})
         IN [rf_vexpr_set |-> r.set,
             ctxs |-> Append(c.ctxs, [root |-> r.last_expr, closed |-> FALSE]),
             vconjunct_ctx_ptr |-> Len(c.ctxs) + 1,
             stale_vexpr_ctxs |-> c.stale_vexpr_ctxs]

append_rf_into_conjuncts(c, vexprs) ==
    IF vexprs = <<>> THEN c
    ELSE LET has == c.vconjunct_ctx_ptr # 0
             r == IF has THEN AndChain(RootOf(c), vexprs, 1, c.rf_vexpr_set)
                  ELSE AndChain(vexprs[1], vexprs, 2, c.rf_vexpr_set \cup {vexprs[1].rf})
         IN [rf_vexpr_set |-> r.set,
             ctxs |-> Append(c.ctxs, [root |-> r.last_expr, closed |-> FALSE]),
             vconjunct_ctx_ptr |-> Len(c.ctxs) + 1,
             stale_vexpr_ctxs |-> IF has THEN Append(c.stale_vexpr_ctxs, c.vconjunct_ctx_ptr)
                                  ELSE c.stale_vexpr_ctxs]

SetConjState(c) ==
    /\ rf_vexpr_set' = c.rf_vexpr_set
    /\ ctxs' = c.ctxs
    /\ vconjunct_ctx_ptr' = c.vconjunct_ctx_ptr
    /\ stale_vexpr_ctxs' = c.stale_vexpr_ctxs

\* the assignments of _normalize_conjuncts, n being what normalizing root gave
StoreNormalized(c, root, n) ==
       /\ sinks' = n.st
       /\ orig_root' = root
       /\ rf_vexpr_set' = c.rf_vexpr_set
       /\ IF root = NullExpr
          THEN /\ ctxs' = c.ctxs
               /\ vconjunct_ctx_ptr' = c.vconjunct_ctx_ptr
               /\ stale_vexpr_ctxs' = c.stale_vexpr_ctxs
               /\ UNCHANGED common_vexpr_ctxs_pushdown
          ELSE IF n.out # NullExpr
          THEN /\ ctxs' = [c.ctxs EXCEPT ![c.vconjunct_ctx_ptr].root = n.out]
               /\ stale_vexpr_ctxs' = c.stale_vexpr_ctxs
               /\ IF should_push_down_common_expr(virt)
                  THEN /\ common_vexpr_ctxs_pushdown' = c.vconjunct_ctx_ptr
                       /\ vconjunct_ctx_ptr' = 0
                  ELSE /\ vconjunct_ctx_ptr' = c.vconjunct_ctx_ptr
                       /\ UNCHANGED common_vexpr_ctxs_pushdown
          ELSE /\ ctxs' = c.ctxs
               /\ stale_vexpr_ctxs' = Append(c.stale_vexpr_ctxs, c.vconjunct_ctx_ptr)
               /\ vconjunct_ctx_ptr' = 0
               /\ UNCHANGED common_vexpr_ctxs_pushdown

\* _process_conjuncts: _normalize_conjuncts on the conjunct state c
ProcessConjuncts(c) ==
    \E n \in {normalize_conjuncts(virt, RootOf(c), sinks.eos)} :
        StoreNormalized(c, RootOf(c), n)

(***************************************************************************)
(* The scan node.                                                          *)
(***************************************************************************)
\* the argument alloc_resource passes to _acquire_runtime_filter (its default)
AcquireWait == TRUE

NoAcq == [i |-> 0, phase |-> "idle", ready |-> FALSE, vexprs |-> <<>>]

\* alloc_resource up to its call of _acquire_runtime_filter
AllocResource ==
    /\ scan_pc = "created"
    /\ scan_pc' = "acquire"
    /\ acq' = [i |-> 1, phase |-> "check", ready |-> FALSE, vexprs |-> <<>>]
    /\ UNCHANGED <<producer, enable_pipeline_exec, virt, now, filterVars, conjVars, apply_mark,
                   blocked_by_rf, is_all_rf_applied, sinks, orig_root, scanner_ctx,
                   block_queue, get_next_ret, arrived_rf_num>>

\* _acquire_runtime_filter, lines 356-359, for filter acq.i: is_ready(), then await()
AcquireCheck ==
    /\ scan_pc = "acquire" /\ acq.phase = "check"
    /\ LET f == acq.i
       IN IF is_ready(f) \/ ~AcquireWait
          THEN /\ acq' = [acq EXCEPT !.ready = is_ready(f), !.phase = "decide"]
               /\ UNCHANGED filterVars
          ELSE /\ AwaitReturns(f)
               /\ await(f)
               /\ acq' = [acq EXCEPT !.ready = (AwaitResult(f) = "ready"), !.phase = "decide"]
               /\ UNCHANGED wrapper
    /\ UNCHANGED <<producer, enable_pipeline_exec, virt, now, conjVars, scan_pc, apply_mark,
                   blocked_by_rf, is_all_rf_applied, sinks, orig_root, scanner_ctx,
                   block_queue, get_next_ret, arrived_rf_num>>

\* the decision leaving _is_all_rf_applied as it is when a filter stays
\* unapplied
AcquireDecideKeepAll ==
    /\ scan_pc = "acquire" /\ acq.phase = "decide"
    /\ LET f == acq.i
           nxt == IF f = NumFilters THEN "finish" ELSE "check"
       IN IF acq.ready /\ ~apply_mark[f]
          THEN /\ acq' = [i |-> f + 1, phase |-> nxt, ready |-> FALSE,
                          vexprs |-> Append(acq.vexprs, PushExpr(f, wrapper[f]))]
               /\ apply_mark' = [apply_mark EXCEPT ![f] = TRUE]
               /\ UNCHANGED <<blocked_by_rf, is_all_rf_applied>>
          ELSE IF (AcquireWait \/ StateAfterDeadlineCheck(f) = "NOT_READY")
                  /\ current_state(f) = "NOT_READY" /\ ~apply_mark[f]
          THEN /\ acq' = [acq EXCEPT !.i = f + 1, !.phase = nxt, !.ready = FALSE]
               /\ blocked_by_rf' = TRUE
               /\ UNCHANGED <<apply_mark, is_all_rf_applied>>
          ELSE /\ acq' = [acq EXCEPT !.i = f + 1, !.phase = nxt, !.ready = FALSE]
               /\ UNCHANGED <<apply_mark, blocked_by_rf, is_all_rf_applied>>
    /\ UNCHANGED <<producer, enable_pipeline_exec, virt, now, filterVars, conjVars, scan_pc, sinks,
                   orig_root, scanner_ctx, block_queue, get_next_ret, arrived_rf_num>>

\* _acquire_runtime_filter, lines 360-370, for filter acq.i
AcquireDecide ==
    /\ scan_pc = "acquire" /\ acq.phase = "decide"
    /\ LET f == acq.i
           nxt == IF f = NumFilters THEN "finish" ELSE "check"
       IN IF acq.ready /\ ~apply_mark[f]
          THEN /\ acq' = [i |-> f + 1, phase |-> nxt, ready |-> FALSE,
                          vexprs |-> Append(acq.vexprs, PushExpr(f, wrapper[f]))]
               /\ apply_mark' = [apply_mark EXCEPT ![f] = TRUE]
               /\ UNCHANGED <<blocked_by_rf, is_all_rf_applied>>
          ELSE IF (AcquireWait \/ StateAfterDeadlineCheck(f) = "NOT_READY")
                  /\ current_state(f) = "NOT_READY" /\ ~apply_mark[f]
          THEN /\ acq' = [acq EXCEPT !.i = f + 1, !.phase = nxt, !.ready = FALSE]
               /\ blocked_by_rf' = TRUE
               /\ UNCHANGED <<apply_mark, is_all_rf_applied>>
          ELSE IF ~apply_mark[f]
          THEN /\ acq' = [acq EXCEPT !.i = f + 1, !.phase = nxt, !.ready = FALSE]
               /\ is_all_rf_applied' = FALSE
               /\ UNCHANGED <<apply_mark, blocked_by_rf>>
          ELSE /\ acq' = [acq EXCEPT !.i = f + 1, !.phase = nxt, !.ready = FALSE]
               /\ UNCHANGED <<apply_mark, blocked_by_rf, is_all_rf_applied>>
    /\ UNCHANGED <<producer, enable_pipeline_exec, virt, now, filterVars, conjVars, scan_pc, sinks,
                   orig_root, scanner_ctx, block_queue, get_next_ret, arrived_rf_num>>

\* _acquire_runtime_filter, lines 372-377, returning WaitForRf
AcquireWaitForRf ==
    /\ scan_pc = "acquire" /\ acq.phase = "finish"
    /\ blocked_by_rf
    /\ SetConjState(append_rf_into_conjuncts(ConjState, acq.vexprs))
    /\ scan_pc' = "blocked"
    /\ acq' = NoAcq
    /\ UNCHANGED <<producer, enable_pipeline_exec, virt, now, filterVars, common_vexpr_ctxs_pushdown,
                   apply_mark, blocked_by_rf, is_all_rf_applied, sinks, orig_root,
                   scanner_ctx, block_queue, get_next_ret, arrived_rf_num>>

\* the query of the scan has been cancelled (RuntimeState::is_cancelled)
IsCancelled == producer.phase = "query" /\ producer.is_cancelled

\* _acquire_runtime_filter returning OK and the rest of alloc_resource:
\* _process_conjuncts, _prepare_scanners unless _eos, RETURN_IF_CANCELLED,
\* _opened = true
AcquireOkAndOpen ==
    /\ scan_pc = "acquire" /\ acq.phase = "finish"
    /\ ~blocked_by_rf
    /\ \E c \in {append_rf_into_conjuncts(ConjState, acq.vexprs)} : ProcessConjuncts(c)
    /\ scanner_ctx' = ~sinks'.eos
    /\ scan_pc' = IF IsCancelled THEN "cancelled" ELSE "opened"
    /\ acq' = NoAcq
    /\ UNCHANGED <<producer, enable_pipeline_exec, virt, now, filterVars, apply_mark, blocked_by_rf,
                   is_all_rf_applied, block_queue, get_next_ret, arrived_rf_num>>

\* the poll asking every filter is_ready() instead of is_ready_or_timeout()
RuntimeFiltersAreReady ==
    /\ scan_pc = "blocked"
    /\ IF ~blocked_by_rf
       THEN scan_pc' = "created" /\ UNCHANGED blocked_by_rf
       ELSE IF \A f \in Filters : is_ready(f)
       THEN blocked_by_rf' = FALSE /\ scan_pc' = "created"
       ELSE UNCHANGED <<blocked_by_rf, scan_pc>>
    /\ UNCHANGED <<producer, enable_pipeline_exec, virt, now, filterVars, conjVars, acq, apply_mark,
                   is_all_rf_applied, sinks, orig_root, scanner_ctx, block_queue,
                   get_next_ret, arrived_rf_num>>

\* the poll answering true without taking _blocked_by_rf back
RuntimeFiltersAreReadyOrTimeoutKeepFlag ==
    /\ scan_pc = "blocked"
    /\ IF \A f \in Filters : StateAfterDeadlineCheck(f) # "NOT_READY"
       THEN /\ IF enable_pipeline_exec
               THEN /\ rf_state_atomic' = [f \in Filters |-> StateAfterDeadlineCheck(f)]
                    /\ UNCHANGED rf_state
               ELSE /\ rf_state' = [f \in Filters |-> StateAfterDeadlineCheck(f)]
                    /\ UNCHANGED rf_state_atomic
            /\ scan_pc' = "created"
       ELSE UNCHANGED <<rf_state, rf_state_atomic, scan_pc>>
    /\ UNCHANGED <<producer, enable_pipeline_exec, virt, now, wrapper, last_await, conjVars, acq,
                   apply_mark, blocked_by_rf, is_all_rf_applied, sinks, orig_root, scanner_ctx,
                   block_queue, get_next_ret, arrived_rf_num>>

\* runtime_filters_are_ready_or_timeout, polled while the task is blocked
RuntimeFiltersAreReadyOrTimeout ==
    /\ scan_pc = "blocked"
    /\ IF ~blocked_by_rf
       THEN /\ scan_pc' = "created"
            /\ UNCHANGED <<rf_state, rf_state_atomic, blocked_by_rf>>
       ELSE IF \A f \in Filters : StateAfterDeadlineCheck(f) # "NOT_READY"
       THEN /\ IF enable_pipeline_exec
               THEN /\ rf_state_atomic' = [f \in Filters |-> StateAfterDeadlineCheck(f)]
                    /\ UNCHANGED rf_state
               ELSE /\ rf_state' = [f \in Filters |-> StateAfterDeadlineCheck(f)]
                    /\ UNCHANGED rf_state_atomic
            /\ blocked_by_rf' = FALSE
            /\ scan_pc' = "created"
       ELSE UNCHANGED <<rf_state, rf_state_atomic, blocked_by_rf, scan_pc>>
    /\ UNCHANGED <<producer, enable_pipeline_exec, virt, now, wrapper, last_await, conjVars, acq,
                   apply_mark, is_all_rf_applied, sinks, orig_root, scanner_ctx,
                   block_queue, get_next_ret, arrived_rf_num>>

\* the loop of try_append_late_arrival_runtime_filter (lines 1318-1327) from
\* filter i on: the marks, the predicates collected and the count
RECURSIVE LateLoop(_, _, _, _)
RECURSIVE LateLoopAnyTerminal(_, _, _, _)
RECURSIVE LateLoopCountNew(_, _, _, _)

\* the loop taking every filter that is no longer NOT_READY for an arrived one
LateLoopAnyTerminal(i, marks, vexprs, n) ==
    IF i > NumFilters THEN [marks |-> marks, vexprs |-> vexprs, n |-> n]
    ELSE IF marks[i] THEN LateLoopAnyTerminal(i + 1, marks, vexprs, n + 1)
    ELSE IF current_state(i) # "NOT_READY"
    THEN LateLoopAnyTerminal(i + 1, [marks EXCEPT ![i] = TRUE],
                             Append(vexprs, PushExpr(i, wrapper[i])), n + 1)
    ELSE LateLoopAnyTerminal(i + 1, marks, vexprs, n)

\* the loop counting only the filters it newly marks
LateLoopCountNew(i, marks, vexprs, n) ==
    IF i > NumFilters THEN [marks |-> marks, vexprs |-> vexprs, n |-> n]
    ELSE IF marks[i] THEN LateLoopCountNew(i + 1, marks, vexprs, n)
    ELSE IF is_ready(i)
    THEN LateLoopCountNew(i + 1, [marks EXCEPT ![i] = TRUE],
                          Append(vexprs, PushExpr(i, wrapper[i])), n + 1)
    ELSE LateLoopCountNew(i + 1, marks, vexprs, n)

\* the loop counting the marked filters and taking no filter that is ready
LateLoopMarkedOnly(i, marks, vexprs, n) ==
    [marks |-> marks, vexprs |-> vexprs,
     n |-> n + Cardinality({j \in i .. NumFilters : marks[j]})]

\* the loop keeping the marks of the filters it takes in this call only
LateLoopForgetMarks(i, marks, vexprs, n) ==
    [marks |-> [j \in Filters |-> ~marks[j] /\ is_ready(j)],
     vexprs |-> vexprs,
     n |-> n + Cardinality({j \in i .. NumFilters : marks[j] \/ is_ready(j)})]

LateLoop(i, marks, vexprs, n) ==
    IF i > NumFilters THEN [marks |-> marks, vexprs |-> vexprs, n |-> n]
    ELSE IF marks[i] THEN LateLoop(i + 1, marks, vexprs, n + 1)
    ELSE IF is_ready(i)
    THEN LateLoop(i + 1, [marks EXCEPT ![i] = TRUE],
                  Append(vexprs, PushExpr(i, wrapper[i])), n + 1)
    ELSE LateLoop(i + 1, marks, vexprs, n)

\* try_append_late_arrival_runtime_filter, called by a scanner thread under _rf_locks
try_append_late_arrival_runtime_filter ==
    /\ scan_pc = "opened" /\ scanner_ctx
    /\ IF is_all_rf_applied
       THEN /\ arrived_rf_num' = NumFilters
            /\ UNCHANGED <<conjVars, apply_mark, is_all_rf_applied>>
       ELSE LET r == LateLoop(1, apply_mark, <<>>, 0)
            IN /\ apply_mark' = r.marks
               /\ SetConjState(append_rf_into_conjuncts(ConjState, r.vexprs))
               /\ is_all_rf_applied' = (r.n = NumFilters)
               /\ arrived_rf_num' = r.n
               /\ UNCHANGED common_vexpr_ctxs_pushdown
    /\ UNCHANGED <<producer, enable_pipeline_exec, virt, now, filterVars, scan_pc, acq, blocked_by_rf,
                   sinks, orig_root, scanner_ctx, block_queue, get_next_ret>>

\* the rows of a batch a scanner keeps: it clones the conjunct context
\* (clone_vconjunct_ctx) and applies the sinks, the common expressions pushed
\* down and the cloned conjuncts
ScannerBlock ==
    {row \in Rows :
        /\ ScanAccepts(sinks, RootOf(ConjState), row)
        /\ common_vexpr_ctxs_pushdown # 0 =>
               TreeAccepts(ctxs[common_vexpr_ctxs_pushdown].root, row)}

\* a scanner thread reads one batch and queues the block
ScannerGetBlock ==
    /\ scan_pc = "opened" /\ scanner_ctx
    /\ block_queue = <<>>
    /\ block_queue' = <<ScannerBlock>>
    /\ UNCHANGED <<producer, enable_pipeline_exec, virt, now, filterVars, conjVars, scan_pc, acq,
                   apply_mark, blocked_by_rf, is_all_rf_applied, sinks, orig_root,
                   scanner_ctx, get_next_ret, arrived_rf_num>>

\* ScannerContext::set_status_on_error: the first error is the one kept
set_status_on_error(process_status, status) ==
    IF process_status = "OK" THEN status ELSE process_status

\* a get_next that looks at _eos before it looks at the cancellation
get_next_eos_first ==
    /\ scan_pc \in {"opened", "cancelled"}
    /\ IF scan_pc = "opened" /\ sinks.eos
       THEN get_next_ret' = "eos" /\ UNCHANGED <<block_queue, producer>>
       ELSE /\ IsCancelled
            /\ get_next_ret' = "Cancelled"
            /\ UNCHANGED <<block_queue, producer>>
    /\ UNCHANGED <<enable_pipeline_exec, virt, now, filterVars, conjVars, scan_pc, acq,
                   apply_mark, blocked_by_rf, is_all_rf_applied, sinks, orig_root,
                   scanner_ctx, arrived_rf_num>>

\* get_next (lines 224-249): the cancellation check comes before _eos
get_next ==
    /\ scan_pc \in {"opened", "cancelled"}
    /\ IF IsCancelled
       THEN /\ IF scanner_ctx
               THEN \E st \in {set_status_on_error(producer.process_status, "Cancelled")} :
                        /\ producer' = [producer EXCEPT !.process_status = st]
                        /\ get_next_ret' = st
               ELSE get_next_ret' = "Cancelled" /\ UNCHANGED producer
            /\ UNCHANGED block_queue
       ELSE /\ scan_pc = "opened"
            /\ IF sinks.eos
               THEN get_next_ret' = "eos" /\ UNCHANGED block_queue
               ELSE /\ block_queue # <<>>
                    /\ get_next_ret' = "block"
                    /\ block_queue' = Tail(block_queue)
            /\ UNCHANGED producer
    /\ UNCHANGED <<enable_pipeline_exec, virt, now, filterVars, conjVars, scan_pc, acq,
                   apply_mark, blocked_by_rf, is_all_rf_applied, sinks, orig_root,
                   scanner_ctx, arrived_rf_num>>

\* release_resource: the scanners are stopped, the stale contexts closed
release_resource ==
    /\ scan_pc = "opened"
    /\ scan_pc' = "released"
    /\ ctxs' = [k \in 1 .. Len(ctxs) |->
                   IF \E j \in 1 .. Len(stale_vexpr_ctxs) : stale_vexpr_ctxs[j] = k
                      \/ k = common_vexpr_ctxs_pushdown
                   THEN [ctxs[k] EXCEPT !.closed = TRUE] ELSE ctxs[k]]
    /\ UNCHANGED <<producer, enable_pipeline_exec, virt, now, filterVars, rf_vexpr_set,
                   vconjunct_ctx_ptr, stale_vexpr_ctxs, common_vexpr_ctxs_pushdown, acq,
                   apply_mark, blocked_by_rf, is_all_rf_applied, sinks, orig_root,
                   scanner_ctx, block_queue, get_next_ret, arrived_rf_num>>

(***************************************************************************)
(* The environment of the scan: producers, the transport, other waiters    *)
(* and the clock.                                                          *)
(***************************************************************************)
\* the build side of filter f completes and the transport delivers its payload
\* (any number of times)
Update(f, payload) ==
    /\ update_filter(f, payload)
    /\ UNCHANGED <<producer, enable_pipeline_exec, virt, now, last_await, conjVars, scanVars>>

\* another thread awaits the filter
ConsumerAwait(f) ==
    /\ AwaitReturns(f)
    /\ await(f)
    /\ UNCHANGED <<producer, enable_pipeline_exec, virt, now, wrapper, conjVars, scanVars>>

\* the clock advances; past the wait bound its value no longer matters
Tick ==
    /\ now < WaitTime
    /\ now' = now + 1
    /\ UNCHANGED <<producer, enable_pipeline_exec, virt, filterVars, conjVars, scanVars>>

ScanVirtProfiles ==
    {vt \in VirtProfiles : (vt.is_null = "ACCEPTABLE" /\ vt.keys = {1})
                           \/ (vt.is_null = "UNACCEPTABLE" /\ vt.keys = {})}

\* the scan node after construction and init, its plan having one of conjuncts
InitScanWith(conjuncts) ==
    /\ enable_pipeline_exec \in BOOLEAN
    /\ virt \in ScanVirtProfiles
    /\ now = 0
    /\ rf_state = [f \in Filters |-> "NOT_READY"]
    /\ rf_state_atomic = [f \in Filters |-> "NOT_READY"]
    /\ wrapper = [f \in Filters |-> {}]
    /\ last_await = [f \in Filters |-> "none"]
    /\ scan_pc = "created"
    /\ acq = NoAcq
    /\ apply_mark = [f \in Filters |-> FALSE]
    /\ blocked_by_rf = FALSE
    /\ is_all_rf_applied = TRUE
    /\ rf_vexpr_set = {}
    /\ \E b \in conjuncts :
          /\ ctxs = IF b = NullExpr THEN <<>> ELSE <<[root |-> b, closed |-> FALSE]>>
          /\ vconjunct_ctx_ptr = IF b = NullExpr THEN 0 ELSE 1
    /\ stale_vexpr_ctxs = <<>>
    /\ common_vexpr_ctxs_pushdown = 0
    /\ sinks = InitSinks
    /\ orig_root = NullExpr
    /\ scanner_ctx = FALSE
    /\ block_queue = <<>>
    /\ get_next_ret = "none"
    /\ arrived_rf_num = 0

InitScan == InitScanWith(BaseConjuncts)

Init == InitScan /\ producer = NoProducer

Next ==
    \/ AllocResource
    \/ AcquireCheck
    \/ AcquireDecide
    \/ AcquireWaitForRf
    \/ AcquireOkAndOpen
    \/ RuntimeFiltersAreReadyOrTimeout
    \/ try_append_late_arrival_runtime_filter
    \/ ScannerGetBlock
    \/ get_next
    \/ release_resource
    \/ \E f \in Filters, payload \in Payloads : Update(f, payload)
    \/ Tick

Spec == Init /\ [][Next]_vars

(***************************************************************************)
(* The consumer filters on their own: updates, waiters on any thread,      *)
(* pollers and the clock.                                                  *)
(***************************************************************************)
\* is_ready_or_timeout() called on filter f
IsReadyOrTimeout(f) ==
    /\ SetState(f, StateAfterDeadlineCheck(f))
    /\ UNCHANGED <<producer, enable_pipeline_exec, virt, now, wrapper, last_await, conjVars, scanVars>>

FilterNext ==
    \/ \E f \in Filters, payload \in Payloads : Update(f, payload)
    \/ \E f \in Filters : ConsumerAwait(f)
    \/ \E f \in Filters : IsReadyOrTimeout(f)
    \/ Tick

SpecFilter == Init /\ [][FilterNext]_vars

(***************************************************************************)
(* Properties of the consumer filter state machine.                        *)
(***************************************************************************)
Terminal(f) == current_state(f) \in {"READY", "TIME_OUT"}

\* C1: a consumer filter leaves NOT_READY at most once, to READY or to
\* TIME_OUT; once it is READY or TIME_OUT no step of the scan, of an update,
\* of await or of is_ready_or_timeout changes its state again.
C1_TerminalStateNeverChanges ==
    [][\A f \in Filters :
          /\ Terminal(f) => current_state(f)' = current_state(f)
          /\ current_state(f)' # current_state(f) => current_state(f) = "NOT_READY"]_vars

\* a scan that runs with one filter timed out and another one ready
C1_Witness ==
    /\ scan_pc = "opened"
    /\ \E f, g \in Filters : current_state(f) = "TIME_OUT" /\ current_state(g) = "READY"

C3_UpdateAfterTerminalDiscarded ==
    [][\A f \in Filters, payload \in Payloads :
          (Terminal(f) /\ Update(f, payload)) =>
              /\ wrapper'[f] = wrapper[f]
              /\ current_state(f)' = current_state(f)
              /\ is_ready(f)' = is_ready(f)]_vars

\* a filter that holds a payload other than the ones an update may still
\* bring, and a timed-out one that holds none
C3_Witness ==
    \E f, g \in Filters :
        /\ current_state(f) = "READY" /\ wrapper[f] = {1}
        /\ current_state(g) = "TIME_OUT" /\ wrapper[g] = {}

\* the runtime filters a conjunct tree holds predicates of
RECURSIVE FiltersIn(_)
FiltersIn(e) ==
    IF e = NullExpr THEN {}
    ELSE IF e.kids # <<>> THEN UNION {FiltersIn(e.kids[i]) : i \in 1 .. Len(e.kids)}
    ELSE IF e.rf # 0 THEN {e.rf}
    ELSE {}

\* C4: a filter whose wait ended in TIME_OUT is never applied: no later call,
\* try_append_late_arrival_runtime_filter included, marks it applied or adds
\* its predicate to a conjunct tree of the scan.
C4_TimedOutFilterNeverAdded ==
    \A f \in Filters :
        current_state(f) = "TIME_OUT" =>
            /\ ~apply_mark[f]
            /\ f \notin rf_vexpr_set
            /\ \A k \in 1 .. Len(ctxs) : f \notin FiltersIn(ctxs[k].root)
            /\ f \notin FiltersIn(orig_root)

\* the scan runs, a filter timed out and the scanners polled for late
\* arrivals and appended another filter
C4_Witness ==
    /\ scan_pc = "opened" /\ scanner_ctx
    /\ ~is_all_rf_applied
    /\ \E f, g \in Filters :
          /\ current_state(f) = "TIME_OUT"
          /\ apply_mark[g] /\ arrived_rf_num = 1

(***************************************************************************)
(* Late arrival against early arrival.                                     *)
(***************************************************************************)
\* the predicates of the filters applied after the conjuncts were normalized
RECURSIVE LateExprs(_)
LateExprs(i) ==
    IF i > NumFilters THEN <<>>
    ELSE (IF apply_mark[i] /\ i \notin FiltersIn(orig_root)
          THEN <<PushExpr(i, wrapper[i])>> ELSE <<>>) \o LateExprs(i + 1)

RECURSIVE Conj(_, _, _)
Conj(root, exprs, j) ==
    IF j > Len(exprs) THEN root
    ELSE Conj(IF root = NullExpr THEN exprs[j] ELSE AndExpr(root, exprs[j]), exprs, j + 1)

\* the conjunct tree _acquire_runtime_filter would have built had every
\* filter applied so far been ready at that time
EarlyRoot == Conj(orig_root, LateExprs(1), 1)

EarlyRows(n) == {row \in Rows : ScanAccepts(n.st, n.out, row)}

\* the rows of a batch the scan would then emit
EarlyBlock == EarlyRows(normalize_conjuncts(virt, EarlyRoot, FALSE))

OpenStep ==
    \/ AllocResource
    \/ AcquireCheck
    \/ AcquireDecide
    \/ AcquireWaitForRf
    \/ AcquireOkAndOpen

OpenNext ==
    \/ OpenStep
    \/ RuntimeFiltersAreReadyOrTimeout
    \/ \E f \in Filters, payload \in Payloads : Update(f, payload)
    \/ Tick

SpecOpen ==
    /\ Init
    /\ [][OpenNext]_vars
    /\ WF_vars(Tick)
    /\ WF_vars(OpenStep)
    /\ WF_vars(RuntimeFiltersAreReadyOrTimeout)

\* C6: a scan is never blocked forever on a runtime filter: whatever the
\* producers do, every filter eventually is READY or TIME_OUT, the poll of
\* the blocked scan returns true and _acquire_runtime_filter returns OK, so
\* that the scan opens.
C6_ScanEventuallyOpens ==
    <>(/\ scan_pc = "opened"
       /\ ~blocked_by_rf
       /\ \A f \in Filters : Terminal(f))

\* the scan is blocked on filters nobody published, and the wait bound is reached
C6_Witness ==
    /\ scan_pc = "blocked"
    /\ blocked_by_rf
    /\ DeadlinePassed
    /\ \A f \in Filters : current_state(f) = "NOT_READY"

(***************************************************************************)
(* Normalization on its own: _process_conjuncts applied to the conjunct    *)
(* trees of a bounded family, under every profile of the virtual hooks.    *)
(***************************************************************************)
\* literals and IN lists of the family
NormLits == {0, 1, NullV}

NormSets == {{}, {1}, {0, 1}, Vals}

\* comparisons of a cast of the first slot with the date 0
CastLeaves ==
    {WithCast(BinExpr(fn, 1, 0, 0), c) : fn \in {"eq", "le"}, c \in Casts \ {"none"}}
    \cup {WithCast(InExpr(1, {0}, FALSE, FALSE), "date")}

\* leaf predicates on the first slot (a key column in half of the profiles),
\* two on the second slot, and compound predicates
NormLeaves ==
    {BinExpr(fn, 1, ch, v) : fn \in BinaryFns, ch \in {0, 1}, v \in NormLits}
    \cup {InExpr(1, vs, nullin, notin) : vs \in NormSets, nullin \in BOOLEAN, notin \in BOOLEAN}
    \cup {FnExpr("is_null_pred", 1, {}), FnExpr("is_not_null_pred", 1, {}), FnExpr("like", 1, {1})}
    \cup {ConstExpr(v) : v \in NormLits}
    \cup {BloomExpr(1, {1}, 0), BitmapExpr(1, {1}, 0), DirectInExpr(1, {1}, 0),
          DirectInExpr(1, Vals, 0)}
    \cup {BinExpr("eq", 2, 0, 1), InExpr(2, {1}, FALSE, FALSE)}
    \cup {CompoundExpr("or", <<BinExpr("ge", 1, 0, 1), BinExpr("eq", 1, 0, 0)>>),
          CompoundExpr("not", <<BinExpr("lt", 1, 0, 1)>>),
          CompoundExpr("not", <<FnExpr("like", 1, {1})>>),
          CompoundExpr("not", <<InExpr(1, {1}, FALSE, FALSE)>>)}
    \cup CastLeaves

\* leaves for the deeper trees: one a key column absorbs, one that stays, a
\* constant true and a constant false
NestedLeaves == {BinExpr("ge", 1, 0, 1), FnExpr("like", 1, {1}), ConstExpr(1), ConstExpr(0)}

\* and-expressions with an and-expression for a child
NestedTrees ==
    {AndExpr(AndExpr(a, b), c) : a \in NestedLeaves, b \in NestedLeaves, c \in NestedLeaves}
    \cup {AndExpr(a, AndExpr(b, c)) : a \in NestedLeaves, b \in NestedLeaves, c \in NestedLeaves}

\* a leaf, two leaves under an and-expression, or a deeper tree
NormTrees ==
    NormLeaves \cup {AndExpr(l, r) : l \in NormLeaves, r \in NormLeaves} \cup NestedTrees

InitNorm ==
    /\ enable_pipeline_exec = FALSE
    /\ virt \in VirtProfiles
    /\ now = 0
    /\ rf_state = [f \in Filters |-> "NOT_READY"]
    /\ rf_state_atomic = [f \in Filters |-> "NOT_READY"]
    /\ wrapper = [f \in Filters |-> {}]
    /\ last_await = [f \in Filters |-> "none"]
    /\ scan_pc = "created"
    /\ acq = NoAcq
    /\ apply_mark = [f \in Filters |-> FALSE]
    /\ blocked_by_rf = FALSE
    /\ is_all_rf_applied = TRUE
    /\ rf_vexpr_set = {}
    /\ \E t \in NormTrees : ctxs = <<[root |-> t, closed |-> FALSE]>>
    /\ vconjunct_ctx_ptr = 1
    /\ stale_vexpr_ctxs = <<>>
    /\ common_vexpr_ctxs_pushdown = 0
    /\ sinks = InitSinks
    /\ orig_root = NullExpr
    /\ scanner_ctx = FALSE
    /\ block_queue = <<>>
    /\ get_next_ret = "none"
    /\ arrived_rf_num = 0
    /\ producer = NoProducer

\* _process_conjuncts on the plan's conjuncts
NormalizeConjuncts ==
    /\ scan_pc = "created"
    /\ ProcessConjuncts(ConjState)
    /\ scan_pc' = "normalized"
    /\ UNCHANGED <<producer, enable_pipeline_exec, virt, now, filterVars, acq, apply_mark, blocked_by_rf,
                   is_all_rf_applied, scanner_ctx, block_queue, get_next_ret, arrived_rf_num>>

SpecNorm == InitNorm /\ [][NormalizeConjuncts]_vars

\* C7: normalization preserves meaning: a row satisfies the original conjunct
\* tree iff it passes every sink normalization filled and the residual tree.
C7_NormalizationPreservesMeaning ==
    scan_pc = "normalized" => ScannerBlock = {row \in Rows : TreeAccepts(orig_root, row)}

(***************************************************************************)
(* The empty build side.                                                   *)
(***************************************************************************)
\* the scan is at EOF and never started a scanner or returned a block
AtEof ==
    /\ sinks.eos
    /\ ~scanner_ctx
    /\ block_queue = <<>>
    /\ get_next_ret \in {"none", "eos"}

\* the predicate of filter f rejects every row
NoProbePasses(f) == \A row \in Rows : ~TreeAccepts(PushExpr(f, wrapper[f]), row)

\* C9: empty build side: when the producer inserted no rows and completed the
\* build (the filter is READY with an empty payload), every probe answers
\* definitely-no and the consuming scan is at EOF at once: no scanner is
\* started, no block is read, get_next returns eos.
C9_EmptyBuildSideImmediateEof ==
    \A f \in Filters :
        (is_ready(f) /\ wrapper[f] = {}) =>
            /\ NoProbePasses(f)
            /\ scan_pc \in {"opened", "released"} => AtEof

\* C9, for a scan that had the filter when it acquired its runtime filters, so
\* that _normalize_conjuncts saw the filter's predicate: every probe answers
\* definitely-no and the scan is at EOF at once.
C9_EmptyBuildSideAppliedAtAcquisition ==
    \A f \in Filters :
        (is_ready(f) /\ wrapper[f] = {}) =>
            /\ NoProbePasses(f)
            /\ (scan_pc \in {"opened", "released"} /\ f \in FiltersIn(orig_root)) => AtEof

\* a scan that opened with the empty filter applied; get_next returned eos
C9_Witness ==
    \E f \in Filters :
        /\ is_ready(f) /\ wrapper[f] = {}
        /\ scan_pc = "opened"
        /\ f \in FiltersIn(orig_root)
        /\ get_next_ret = "eos"

(***************************************************************************)
(* The filter value of a runtime filter (the payload behind _wrapper):     *)
(* one record for the five kinds.                                          *)
(*   type          RuntimeFilterParams::filter_type                        *)
(*   form          what the value currently is: "in", "minmax", "bloom",   *)
(*                 "bitmap" (an in-set or in-or-bloom filter turns from    *)
(*                 "in" into "bloom")                                      *)
(*   set           the in-set's values, in insertion order                 *)
(*   bits          the bits set in the bloom's bit array                   *)
(*   lo, hi        the min-max interval                                    *)
(*   bitmap        the bitmap's integers                                   *)
(*   not_in        RuntimeFilterParams::bitmap_filter_not_in (polarity)    *)
(*   contain_null  the null flag                                           *)
(***************************************************************************)
\* capacity K of an in-set
max_in_num == 2

\* number of bits of a bloom filter
bloom_filter_size == 3

\* number of hash functions of a bloom filter
NumHash == 2

RuntimeFilterType ==
    {"IN_FILTER", "MINMAX_FILTER", "BLOOM_FILTER", "IN_OR_BLOOM_FILTER", "BITMAP_FILTER"}

\* the filters a plan can ask for: a kind, and a polarity for a bitmap
RuntimeFilterParams ==
    {[filter_type |-> t, bitmap_filter_not_in |-> n] :
        t \in RuntimeFilterType, n \in BOOLEAN} \
    {[filter_type |-> t, bitmap_filter_not_in |-> TRUE] :
        t \in RuntimeFilterType \ {"BITMAP_FILTER"}}

\* the largest and the smallest value of the column type
TypeMax == MaxVal + 1

TypeMin == 0 - 2

Min(a, b) == IF a <= b THEN a ELSE b

Max(a, b) == IF a >= b THEN a ELSE b

Range(q) == {q[i] : i \in 1 .. Len(q)}

\* the value of a filter nothing was inserted into
create_wrapper(params) ==
    [type |-> params.filter_type,
     form |-> CASE params.filter_type \in {"IN_FILTER", "IN_OR_BLOOM_FILTER"} -> "in"
                [] params.filter_type = "MINMAX_FILTER" -> "minmax"
                [] params.filter_type = "BLOOM_FILTER" -> "bloom"
                [] OTHER -> "bitmap",
     set |-> <<>>, bits |-> {}, lo |-> TypeMax, hi |-> TypeMin, bitmap |-> {},
     not_in |-> params.bitmap_filter_not_in, contain_null |-> FALSE]

\* the i-th hash function of the bloom filter
Hash(i, v) == (v * i + i - 1) % bloom_filter_size

HashBits(v) == {Hash(i, v) : i \in 1 .. NumHash}

\* a change to a bloom that discards the set without loading its values
change_to_bloom_filter_empty(x) ==
    IF x.form = "in" THEN [x EXCEPT !.form = "bloom", !.set = <<>>] ELSE x

\* change_to_bloom_filter: every retained value is loaded into the bloom, the
\* set is discarded
change_to_bloom_filter(x) ==
    IF x.form = "in"
    THEN [x EXCEPT !.form = "bloom",
                   !.bits = UNION {HashBits(v) : v \in Range(x.set)},
                   !.set = <<>>]
    ELSE x

\* insert of one value; at_capacity is what a full in-set becomes when a value
\* it does not hold arrives
InsertValue(x, v, at_capacity) ==
    IF v = NullV THEN [x EXCEPT !.contain_null = TRUE]
    ELSE CASE x.form = "in" ->
                (IF v \in Range(x.set) THEN x
                 ELSE IF Len(x.set) < max_in_num THEN [x EXCEPT !.set = Append(@, v)]
                 ELSE at_capacity)
           [] x.form = "bloom" -> [x EXCEPT !.bits = @ \cup HashBits(v)]
           [] x.form = "minmax" -> [x EXCEPT !.lo = Min(@, v), !.hi = Max(@, v)]
           [] OTHER -> [x EXCEPT !.bitmap = @ \cup {v}]

\* a full in-set that drops the value instead of turning into a bloom
insert_drop_at_capacity(x, v) == InsertValue(x, v, x)

\* insert: a full in-set turns into a bloom that holds the retained values and v
insert(x, v) ==
    InsertValue(x, v, [change_to_bloom_filter(x) EXCEPT !.bits = @ \cup HashBits(v)])

\* insert_batch: the values of column at the indices rows, one after the other
RECURSIVE insert_batch(_, _, _)
insert_batch(x, column, rows) ==
    IF rows = <<>> THEN x
    ELSE insert_batch(insert(x, column[Head(rows)]), column, Tail(rows))

\* the in-set holding a's values followed by the values only b holds
SetUnion(a, b) == a \o SelectSeq(b, LAMBDA v : v \notin Range(a))

\* a merge that keeps the receiver and forgets the contribution
merge_from_keep_receiver(x, o) == x

\* merge_from: set union for an in-set (a bloom if the union has more than
\* max_in_num values), bitwise or for a bloom, the interval hull for a min-max,
\* the union for a bitmap, which keeps its polarity; the null flags are or-ed
merge_from(x, o) ==
    CASE x.form = "in" /\ o.form = "in" ->
           (IF Len(SetUnion(x.set, o.set)) <= max_in_num
            THEN [x EXCEPT !.set = SetUnion(x.set, o.set),
                           !.contain_null = @ \/ o.contain_null]
            ELSE [change_to_bloom_filter([x EXCEPT !.set = SetUnion(x.set, o.set)])
                      EXCEPT !.contain_null = @ \/ o.contain_null])
      [] x.form \in {"in", "bloom"} /\ o.form \in {"in", "bloom"} ->
           [change_to_bloom_filter(x) EXCEPT
                !.bits = @ \cup change_to_bloom_filter(o).bits,
                !.contain_null = @ \/ o.contain_null]
      [] x.form = "minmax" /\ o.form = "minmax" ->
           [x EXCEPT !.lo = Min(@, o.lo), !.hi = Max(@, o.hi),
                     !.contain_null = @ \/ o.contain_null]
      [] x.form = "bitmap" /\ o.form = "bitmap" ->
           [x EXCEPT !.bitmap = @ \cup o.bitmap, !.contain_null = @ \/ o.contain_null]
      [] OTHER -> x

\* probe: "maybe" or "definitely-no"; a null is never in a set or a range, and
\* the bitmap's polarity says whether its integers pass or are rejected
probe(x, v) ==
    IF v = NullV THEN "definitely-no"
    ELSE IF CASE x.form = "in" -> v \in Range(x.set)
              [] x.form = "bloom" -> HashBits(v) \subseteq x.bits
              [] x.form = "minmax" -> x.lo <= v /\ v <= x.hi
              [] OTHER -> (v \in x.bitmap) # x.not_in
         THEN "maybe" ELSE "definitely-no"

\* the values of the column the filter lets pass
ProbeSet(x) == {v \in Vals : probe(x, v) = "maybe"}

(***************************************************************************)
(* The wire format, as a sequence of integers: kind tag, flags (1:         *)
(* polarity, 2: null contained), then the payload of the kind.             *)
(*   in-set       count, then the values in insertion order                *)
(*   min-max      the two endpoints                                        *)
(*   bloom        bit size, number of hash functions, the raw bits         *)
(*   in-or-bloom  a discriminator (the tag of in-set or of bloom), then    *)
(*                that payload                                             *)
(*   bitmap       polarity, then the runs of the set as start, length      *)
(***************************************************************************)
\* the enumerators of RuntimeFilterType
TypeTag(t) ==
    CASE t = "IN_FILTER" -> 0
      [] t = "MINMAX_FILTER" -> 1
      [] t = "BLOOM_FILTER" -> 2
      [] t = "IN_OR_BLOOM_FILTER" -> 3
      [] OTHER -> 4

TypeOfTag(n) == The({t \in RuntimeFilterType : TypeTag(t) = n})

Flag(b, n) == IF b THEN n ELSE 0

\* the runs of consecutive integers of S that start at v or later
RECURSIVE RunLength(_, _)
RunLength(S, v) ==
    IF v > TypeMax THEN <<>>
    ELSE IF v \in S /\ (v - 1) \notin S
         THEN <<v, Cardinality({n \in v .. TypeMax : \A m \in v .. n : m \in S})>>
              \o RunLength(S, v + 1)
         ELSE RunLength(S, v + 1)

RECURSIVE RunsToSet(_)
RunsToSet(q) ==
    IF Len(q) < 2 THEN {}
    ELSE (q[1] .. (q[1] + q[2] - 1)) \cup RunsToSet(SubSeq(q, 3, Len(q)))

InPayload(x) == <<Len(x.set)>> \o x.set

BloomPayload(x) ==
    <<bloom_filter_size, NumHash>>
    \o [i \in 1 .. bloom_filter_size |-> IF (i - 1) \in x.bits THEN 1 ELSE 0]

\* an in-set that turned into a bloom travels as a bloom
serialize(x) ==
    CASE x.form = "minmax" ->
           <<TypeTag(x.type), Flag(x.contain_null, 2), x.lo, x.hi>>
      [] x.form = "bitmap" ->
           <<TypeTag(x.type), Flag(x.not_in, 1) + Flag(x.contain_null, 2), Flag(x.not_in, 1)>>
           \o RunLength(x.bitmap, 0)
      [] x.type = "IN_OR_BLOOM_FILTER" ->
           <<TypeTag(x.type), Flag(x.contain_null, 2)>>
           \o (IF x.form = "in" THEN <<TypeTag("IN_FILTER")>> \o InPayload(x)
               ELSE <<TypeTag("BLOOM_FILTER")>> \o BloomPayload(x))
      [] x.form = "in" ->
           <<TypeTag("IN_FILTER"), Flag(x.contain_null, 2)>> \o InPayload(x)
      [] OTHER ->
           <<TypeTag("BLOOM_FILTER"), Flag(x.contain_null, 2)>> \o BloomPayload(x)

ReadIn(x, body) == [x EXCEPT !.form = "in", !.set = SubSeq(body, 2, 1 + body[1])]

ReadBloom(x, body) ==
    [x EXCEPT !.form = "bloom", !.bits = {i - 1 : i \in {j \in 1 .. body[1] : body[2 + j] = 1}}]

deserialize(bytes) ==
    LET t == TypeOfTag(bytes[1])
        body == SubSeq(bytes, 3, Len(bytes))
        x == [create_wrapper([filter_type |-> t, bitmap_filter_not_in |-> bytes[2] % 2 = 1])
                  EXCEPT !.contain_null = (bytes[2] \div 2) % 2 = 1]
    IN CASE t = "MINMAX_FILTER" -> [x EXCEPT !.lo = body[1], !.hi = body[2]]
         [] t = "BITMAP_FILTER" ->
              [x EXCEPT !.not_in = body[1] = 1,
                        !.bitmap = RunsToSet(SubSeq(body, 2, Len(body)))]
         [] t = "IN_OR_BLOOM_FILTER" ->
              (IF body[1] = TypeTag("IN_FILTER")
               THEN ReadIn(x, SubSeq(body, 2, Len(body)))
               ELSE ReadBloom(x, SubSeq(body, 2, Len(body))))
         [] t = "IN_FILTER" -> ReadIn(x, body)
         [] OTHER -> ReadBloom(x, body)

(***************************************************************************)
(* A producer builds a filter value (inserts, batches, merges of other     *)
(* producers' contributions, the change to a bloom, a trip over the wire)  *)
(* and a scan applies the value it was sent.                               *)
(*   producer.x  the filter value                                          *)
(*   producer.R  the non-null keys of the build relation so far            *)
(***************************************************************************)
\* longest batch and longest build of a contribution that is merged in
MaxBatch == 2

\* the sequences over S of length at most n
RECURSIVE SeqsUpTo(_, _)
SeqsUpTo(S, n) ==
    IF n = 0 THEN {<<>>}
    ELSE SeqsUpTo(S, n - 1)
         \cup {Append(q, v) : q \in {r \in SeqsUpTo(S, n - 1) : Len(r) = n - 1}, v \in S}

\* get_push_expr_ctxs for a filter value on the first slot
PushExprOf(x) ==
    CASE x.form = "in" -> DirectInExpr(1, Range(x.set), 1)
      [] x.form = "bloom" ->
           (IF x.bits = {} THEN [ConstExpr(0) EXCEPT !.rf = 1]
            ELSE BloomExpr(1, ProbeSet(x), 1))
      [] x.form = "minmax" ->
           [AndExpr(BinExpr("ge", 1, 0, x.lo), BinExpr("le", 1, 0, x.hi)) EXCEPT !.rf = 1]
      [] OTHER -> BitmapExpr(1, ProbeSet(x), 1)

InitValue ==
    /\ InitScan
    /\ enable_pipeline_exec = FALSE
    /\ \E params \in RuntimeFilterParams :
          producer = [phase |-> "build", x |-> create_wrapper(params), R |-> {},
                      base |-> NullExpr]

Built(x, R) ==
    /\ producer.phase = "build"
    /\ producer' = [producer EXCEPT !.x = x, !.R = R \ {NullV}]
    /\ UNCHANGED <<enable_pipeline_exec, virt, now, filterVars, conjVars, scanVars>>

Insert(v) == Built(insert(producer.x, v), producer.R \cup {v})

InsertBatch(column, rows) ==
    Built(insert_batch(producer.x, column, rows),
          producer.R \cup {column[rows[i]] : i \in 1 .. Len(rows)})

\* the contribution of another producer, built from the keys of column
MergeFrom(column) ==
    Built(merge_from(producer.x,
                     insert_batch(create_wrapper([filter_type |-> producer.x.type,
                                                  bitmap_filter_not_in |-> producer.x.not_in]),
                                  column, [i \in 1 .. Len(column) |-> i])),
          producer.R \cup Range(column))

ChangeToBloom ==
    /\ producer.x.form = "in"
    /\ Built(change_to_bloom_filter(producer.x), producer.R)

\* the value is serialized and the receiver deserializes it
Transmit == Built(deserialize(serialize(producer.x)), producer.R)

\* the scan acquires the filter and normalizes its conjuncts with it
ApplyToScan ==
    /\ producer.phase = "build"
    /\ scan_pc = "created"
    /\ \E c \in {append_rf_into_conjuncts(ConjState, <<PushExprOf(producer.x)>>)} :
          ProcessConjuncts(c)
    /\ scan_pc' = "normalized"
    /\ producer' = [producer EXCEPT !.phase = "applied", !.base = RootOf(ConjState)]
    /\ UNCHANGED <<enable_pipeline_exec, virt, now, filterVars, acq, apply_mark, blocked_by_rf,
                   is_all_rf_applied, scanner_ctx, block_queue, get_next_ret, arrived_rf_num>>

ValueNext ==
    \/ \E v \in Cells : Insert(v)
    \/ \E column \in SeqsUpTo(Cells, MaxBatch) \ {<<>>},
          rows \in SeqsUpTo(1 .. MaxBatch, MaxBatch) :
          /\ Range(rows) \subseteq 1 .. Len(column)
          /\ InsertBatch(column, rows)
    \/ \E column \in SeqsUpTo(Cells, MaxBatch) : MergeFrom(column)
    \/ ChangeToBloom
    \/ Transmit
    \/ ApplyToScan

SpecValue == InitValue /\ [][ValueNext]_vars

\* C8: no false negatives: whatever sequence of insert, insert_batch, merge,
\* change to bloom and serialize/deserialize built the filter from the build
\* relation R, a probe answers definitely-no only for keys that are not in R,
\* and a scan that applied the filter keeps every row whose key is in R and
\* that its own conjuncts accept.
C8_NoFalseNegatives ==
    /\ producer.phase \in {"build", "applied"} =>
          \A k \in Vals : probe(producer.x, k) = "definitely-no" => k \notin producer.R
    /\ producer.phase = "applied" =>
          \A row \in Rows :
              (row[1] \in producer.R /\ TreeAccepts(producer.base, row)) => row \in ScannerBlock

\* C8, for every filter but a bitmap of polarity not-in (which rejects exactly
\* the keys of R): a probe answers definitely-no only for keys that are not in
\* R, and a scan that applied the filter keeps every row whose key is in R.
C8_NoFalseNegativesExceptNotInBitmap ==
    (producer.phase \in {"build", "applied"}
     /\ ~(producer.x.form = "bitmap" /\ producer.x.not_in)) =>
        /\ \A k \in Vals : probe(producer.x, k) = "definitely-no" => k \notin producer.R
        /\ producer.phase = "applied" =>
              \A row \in Rows :
                  (row[1] \in producer.R /\ TreeAccepts(producer.base, row))
                      => row \in ScannerBlock

\* an in-or-bloom filter that took more than max_in_num keys, became a bloom
\* and was applied by a scan that emits rows
C8_Witness ==
    /\ producer.phase = "applied"
    /\ producer.x.type = "IN_OR_BLOOM_FILTER"
    /\ producer.x.form = "bloom"
    /\ Cardinality(producer.R) > max_in_num
    /\ \E row \in ScannerBlock : row[1] \in producer.R

(***************************************************************************)
(* The merge of the contributions of three producers of one filter.        *)
(***************************************************************************)
\* longest build of a contribution
MaxBuild == 3

\* the values a producer of the filter can have built
PayloadsOf(params) ==
    {insert_batch(create_wrapper(params), column, [i \in 1 .. Len(column) |-> i]) :
        column \in SeqsUpTo(Cells, MaxBuild)}

InitMerge ==
    /\ InitScan
    /\ enable_pipeline_exec = FALSE
    /\ virt = The(ScanVirtProfiles)
    /\ ctxs = <<>>
    /\ \E params \in RuntimeFilterParams :
          \E a \in PayloadsOf(params), b \in PayloadsOf(params), c \in PayloadsOf(params) :
             producer = [phase |-> "payloads", a |-> a, b |-> b, c |-> c]

\* the merges of the contributions in the orders they can arrive in
Merge ==
    /\ producer.phase = "payloads"
    /\ producer' =
          [phase |-> "merged", a |-> producer.a, b |-> producer.b, c |-> producer.c,
           ab |-> merge_from(producer.a, producer.b),
           ba |-> merge_from(producer.b, producer.a),
           aa |-> merge_from(producer.a, producer.a),
           a_bc |-> merge_from(producer.a, merge_from(producer.b, producer.c)),
           ab_c |-> merge_from(merge_from(producer.a, producer.b), producer.c)]
    /\ UNCHANGED <<enable_pipeline_exec, virt, now, filterVars, conjVars, scanVars>>

SpecMerge == InitMerge /\ [][Merge]_vars

\* two filter values answer every probe identically
ProbeEquivalent(x, y) == \A v \in Cells : probe(x, v) = probe(y, v)

\* C10: merge is commutative, associative and idempotent up to probe
\* equivalence, for every kind of filter: merge(A,B) and merge(B,A),
\* merge(A,merge(B,C)) and merge(merge(A,B),C), merge(A,A) and A answer every
\* probe identically.
C10_MergeAlgebra ==
    producer.phase = "merged" =>
        /\ ProbeEquivalent(producer.ab, producer.ba)
        /\ ProbeEquivalent(producer.a_bc, producer.ab_c)
        /\ ProbeEquivalent(producer.aa, producer.a)

\* two different contributions whose merges differ as payloads between the
\* two orders of arrival
C10_Witness ==
    /\ producer.phase = "merged"
    /\ producer.a # producer.b
    /\ producer.ab # producer.ba
    /\ producer.ab # producer.a

(***************************************************************************)
(* The promotion of an in-or-bloom filter.                                 *)
(***************************************************************************)
\* the producer builds an in-or-bloom filter
InOrBloom == producer.phase = "build" /\ producer.x.type = "IN_OR_BLOOM_FILTER"

\* C11: in-or-bloom promotion: a filter that received at most max_in_num
\* distinct values is in set form, one that received more is in bloom form,
\* and every value received probes as maybe.
C11_SetFormUpToCapacity ==
    InOrBloom =>
        /\ Cardinality(producer.R) <= max_in_num => producer.x.form = "in"
        /\ Cardinality(producer.R) > max_in_num => producer.x.form = "bloom"
        /\ \A v \in producer.R : probe(producer.x, v) = "maybe"

\* C11, with change_to_bloom_filter() called on the filter from outside: a
\* step other than that call leaves a filter with at most max_in_num distinct
\* values in set form, the insert or merge that brings the count above
\* max_in_num turns it into a bloom, a bloom never returns to set form, and
\* every value received before or after probes as maybe.
C11_PromotionAboveCapacity ==
    [][(InOrBloom /\ producer'.phase = "build") =>
          /\ producer.x.form = "bloom" => producer'.x.form = "bloom"
          /\ (producer.x.form = "in" /\ producer'.x.form = "bloom") =>
                \/ Cardinality(producer'.R) > max_in_num
                \/ (producer'.x = change_to_bloom_filter(producer.x)
                    /\ producer'.R = producer.R)
          /\ Cardinality(producer'.R) > max_in_num => producer'.x.form = "bloom"
          /\ \A v \in producer'.R : probe(producer'.x, v) = "maybe"]_vars

\* the filter holds one value more than max_in_num, as a bloom
C11_Witness ==
    /\ InOrBloom
    /\ producer.x.form = "bloom"
    /\ producer.x.set = <<>>
    /\ Cardinality(producer.R) = max_in_num + 1
    /\ \A v \in producer.R : HashBits(v) \subseteq producer.x.bits

(***************************************************************************)
(* The merge coordinator of a shuffled filter.                             *)
(*   producer.contribution  what each producer built and sends             *)
(*   producer.acc           the coordinator's wrapper                      *)
(*   producer.got           the producers whose contribution was merged    *)
(*   producer.count         the contribution count                         *)
(*   producer.sent          the serializations of the merged payload       *)
(*   producer.inbox         what each consumer endpoint was sent           *)
(*   producer.ignored       a duplicate delivery was ignored               *)
(***************************************************************************)
\* expected producer count N
NumProducers == 2

\* consumer endpoints registered with the coordinator
NumConsumers == 2

InitCoordinator ==
    /\ InitScan
    /\ enable_pipeline_exec = FALSE
    /\ virt = The(ScanVirtProfiles)
    /\ ctxs = <<>>
    /\ \E params \in RuntimeFilterParams :
          \E contribution \in [1 .. NumProducers ->
                                  {insert_batch(create_wrapper(params), column,
                                                [i \in 1 .. Len(column) |-> i]) :
                                      column \in SeqsUpTo(Cells, 1)}] :
             producer = [phase |-> "collect", contribution |-> contribution,
                         acc |-> create_wrapper(params), got |-> {}, count |-> 0,
                         sent |-> <<>>, inbox |-> [c \in 1 .. NumConsumers |-> <<>>],
                         ignored |-> FALSE]

\* accept(producer_id, bytes), duplicate saying whether the delivery is one
AcceptContribution(id, duplicate) ==
    /\ producer.phase \in {"collect", "merged"}
    /\ IF duplicate \/ producer.phase = "merged"
       THEN producer' = [producer EXCEPT !.ignored = TRUE]
       ELSE \E acc \in {merge_from(producer.acc,
                                   deserialize(serialize(producer.contribution[id])))} :
              IF producer.count + 1 = NumProducers
              THEN producer' =
                     [producer EXCEPT !.acc = acc, !.got = @ \cup {id}, !.count = @ + 1,
                                      !.phase = "merged",
                                      !.sent = Append(@, serialize(acc)),
                                      !.inbox = [c \in 1 .. NumConsumers |->
                                                    Append(@[c], serialize(acc))]]
              ELSE producer' =
                     [producer EXCEPT !.acc = acc, !.got = @ \cup {id}, !.count = @ + 1]
    /\ UNCHANGED <<enable_pipeline_exec, virt, now, filterVars, conjVars, scanVars>>

\* a coordinator that merges and counts every delivery
accept_every_delivery(id) == AcceptContribution(id, FALSE)

\* accept: the delivery of a producer already merged is a duplicate
accept(id) == AcceptContribution(id, id \in producer.got)

CoordinatorNext == \E id \in 1 .. NumProducers : accept(id)

SpecCoordinator == InitCoordinator /\ [][CoordinatorNext]_vars

Coordinating == producer.phase \in {"collect", "merged"}

\* the merge of the contributions of the producers in S, in the order of ids
RECURSIVE MergeOf(_, _)
MergeOf(x, S) ==
    IF S = {} THEN x
    ELSE MergeOf(merge_from(x, producer.contribution[The({i \in S : \A j \in S : i <= j})]),
                 S \ {The({i \in S : \A j \in S : i <= j})})

\* C12: the coordinator counts each producer at most once, is merged exactly
\* when NumProducers distinct producers contributed, serializes and publishes
\* the merged payload once, the same bytes for every consumer, and a duplicate
\* delivery changes neither the merged payload nor the contribution count.
C12_CoordinatorCountsProducersOnce ==
    /\ [](Coordinating =>
            /\ producer.count = Cardinality(producer.got)
            /\ producer.phase = "merged" <=> producer.count = NumProducers
            /\ Len(producer.sent) = (IF producer.phase = "merged" THEN 1 ELSE 0)
            /\ \A c \in 1 .. NumConsumers : producer.inbox[c] = producer.sent
            /\ producer.phase = "merged" => producer.sent[1] = serialize(producer.acc)
            /\ ProbeEquivalent(producer.acc,
                               MergeOf(create_wrapper([filter_type |-> producer.acc.type,
                                                       bitmap_filter_not_in |->
                                                           producer.acc.not_in]),
                                       producer.got)))
    /\ [][(Coordinating /\ producer'.got = producer.got) =>
             /\ producer'.acc = producer.acc
             /\ producer'.count = producer.count
             /\ producer'.sent = producer.sent
             /\ producer'.inbox = producer.inbox]_vars

\* the coordinator is merged and ignored a duplicate delivery
C12_Witness ==
    /\ producer.phase = "merged"
    /\ "ignored" \in DOMAIN producer /\ producer.ignored
    /\ producer.contribution[1] # producer.contribution[2]
    /\ producer.acc # producer.contribution[1]

(***************************************************************************)
(* The conjunct contexts replaced by an append.                            *)
(***************************************************************************)
\* C13: when filters are appended to an existing conjunct tree a fresh context
\* is installed and the replaced one is kept in _stale_vexpr_ctxs, open; no
\* context is closed before release_resource, and release_resource closes
\* every replaced context.
C13_ReplacedContextAliveUntilRelease ==
    /\ [][(vconjunct_ctx_ptr # 0 /\ vconjunct_ctx_ptr' # 0
           /\ vconjunct_ctx_ptr' # vconjunct_ctx_ptr) =>
             /\ vconjunct_ctx_ptr' = Len(ctxs) + 1
             /\ Len(ctxs') = Len(ctxs) + 1
             /\ ~ctxs'[vconjunct_ctx_ptr'].closed
             /\ vconjunct_ctx_ptr \in Range(stale_vexpr_ctxs')
             /\ ~ctxs'[vconjunct_ctx_ptr].closed]_vars
    /\ [](scan_pc # "released" => \A k \in 1 .. Len(ctxs) : ~ctxs[k].closed)
    /\ [](scan_pc = "released" => \A k \in Range(stale_vexpr_ctxs) : ctxs[k].closed)

\* two contexts were replaced, by the append at acquisition and by a late
\* arrival, and release_resource closed them
C13_Witness ==
    /\ scan_pc = "released"
    /\ Len(stale_vexpr_ctxs) >= 2
    /\ arrived_rf_num > 0
    /\ \A k \in Range(stale_vexpr_ctxs) : ctxs[k].closed

(***************************************************************************)
(* Constant conjuncts.                                                     *)
(***************************************************************************)
\* the leaves of the and-tree e
RECURSIVE AndLeaves(_)
AndLeaves(e) ==
    IF e = NullExpr THEN {}
    ELSE IF is_and_expr(e) THEN AndLeaves(e.kids[1]) \cup AndLeaves(e.kids[2])
    ELSE {e}

\* the conjunct tree left for per-row evaluation
ResidualRoot ==
    IF common_vexpr_ctxs_pushdown # 0 THEN ctxs[common_vexpr_ctxs_pushdown].root
    ELSE RootOf(ConjState)

\* conjunct trees with a constant leaf, alone or beside a plan conjunct
ConstTrees ==
    {ConstExpr(v) : v \in NormLits}
    \cup {AndExpr(BinExpr("ge", 1, 0, 1), ConstExpr(0)),
          AndExpr(ConstExpr(NullV), BinExpr("le", 2, 0, 1))}

\* a scan whose plan has a constant conjunct
InitConst == InitScanWith(ConstTrees) /\ producer = NoProducer

SpecConst == InitConst /\ [][Next]_vars

\* C14: a leaf conjunct that evaluates to constant false or NULL short-circuits
\* the scan: normalization sets EOF, no scanner is prepared and get_next
\* reports eos without a row.
C14_ConstantFalseShortCircuits ==
    (scan_pc \in {"opened", "released"}
     /\ \E l \in AndLeaves(orig_root) : is_constant(l) /\ l.lit # 1) => AtEof

\* the plan's second conjunct is the constant false; get_next returned eos
C14_Witness ==
    /\ scan_pc = "opened"
    /\ is_and_expr(ctxs[1].root) /\ ctxs[1].root.kids[2] = ConstExpr(0)
    /\ ConstExpr(0) \in AndLeaves(orig_root)
    /\ get_next_ret = "eos"

\* C15: a leaf conjunct that evaluates to constant true is removed from the
\* residual conjunct tree by normalization.
C15_ConstantTrueRemoved ==
    scan_pc = "normalized" =>
        \A l \in AndLeaves(ResidualRoot) : ~(is_constant(l) /\ l.lit = 1)

\* C15, as the code has it: a leaf conjunct that evaluates to constant true
\* stays in the residual conjunct tree, and does not end the scan.
C15_ConstantTrueKept ==
    scan_pc = "normalized" =>
        \A l \in AndLeaves(orig_root) :
            (is_constant(l) /\ l.lit = 1) =>
                /\ l \in AndLeaves(ResidualRoot)
                /\ sinks.eos => \E m \in AndLeaves(orig_root) : m # l

\* a constant true beside a predicate that was pushed down: the constant is
\* all that is left of the tree
C15_Witness ==
    /\ scan_pc = "normalized"
    /\ is_and_expr(orig_root)
    /\ ResidualRoot = ConstExpr(1)
    /\ ~sinks.eos

(***************************************************************************)
(* What try_append_late_arrival_runtime_filter reports.                    *)
(***************************************************************************)
\* the filters marked applied
Applied(marks) == {f \in Filters : marks[f]}

\* C16: try_append_late_arrival_runtime_filter reports the number of filters
\* newly applied by the call.
C16_ReportsNewlyApplied ==
    [][arrived_rf_num' # arrived_rf_num =>
          arrived_rf_num' = Cardinality(Applied(apply_mark')) - Cardinality(Applied(apply_mark))]_vars

\* C16, as the code has it: the call reports the number of filters applied so
\* far, at acquisition or late, those it newly applied included.
C16_ReportsAppliedSoFar ==
    [][(arrived_rf_num' # arrived_rf_num \/ (scan_pc = "opened" /\ apply_mark' # apply_mark)) =>
          arrived_rf_num' = Cardinality(Applied(apply_mark'))]_vars

\* one filter was applied at acquisition, the other late, and the call
\* reported both
C16_Witness ==
    /\ scan_pc = "opened"
    /\ arrived_rf_num = NumFilters
    /\ Applied(apply_mark) = Filters
    /\ FiltersIn(orig_root) # {}
    /\ FiltersIn(orig_root) # Filters

(***************************************************************************)
(* The two wait implementations side by side: the same calls, publishes    *)
(* and clock for the condition-variable implementation (on rf_state) and   *)
(* for the atomic one (on rf_state_atomic).                                *)
(*   producer.cv      the latest await of the condition-variable           *)
(*                    implementation: "blocked" while it waits             *)
(*   producer.atomic  the latest await of the atomic implementation:       *)
(*                    "pending" when it returned false before the bound    *)
(*   producer.early   await was called while the filter was NOT_READY      *)
(*                    before the bound                                     *)
(***************************************************************************)
\* the state a deadline check leaves a filter in state s in
DeadlineCheck(s) == IF s = "NOT_READY" /\ DeadlinePassed THEN "TIME_OUT" ELSE s


\* what await() with the atomic state answers, s being the state it leaves
AtomicAnswer(s) ==
    CASE s = "READY" -> "ready" [] s = "TIME_OUT" -> "timed_out" [] OTHER -> "pending"

\* an await on the condition variable that reports ready when the wait ends
CvAnswerReadyAtBound(s) == IF s = "NOT_READY" THEN "blocked" ELSE "ready"

\* what await() with the condition variable answers, "blocked" while it waits
CvAnswer(s) ==
    CASE s = "READY" -> "ready" [] s = "TIME_OUT" -> "timed_out" [] OTHER -> "blocked"

InitModes ==
    /\ InitScan
    /\ enable_pipeline_exec = FALSE
    /\ virt = The(ScanVirtProfiles)
    /\ ctxs = <<>>
    /\ producer = [phase |-> "modes", cv |-> [f \in Filters |-> "none"],
                   atomic |-> [f \in Filters |-> "none"],
                   early |-> [f \in Filters |-> FALSE]]

ModesStep(f, cv_state, atomic_state, cv, atomic) ==
    /\ producer.phase = "modes"
    /\ rf_state' = [rf_state EXCEPT ![f] = cv_state]
    /\ rf_state_atomic' = [rf_state_atomic EXCEPT ![f] = atomic_state]
    /\ producer' = [producer EXCEPT !.cv[f] = cv, !.atomic[f] = atomic,
                                    !.early[f] = @ \/ cv = "blocked"]
    /\ UNCHANGED <<enable_pipeline_exec, virt, now, wrapper, last_await, conjVars, scanVars>>

\* update_filter and signal: a waiter on the condition variable returns
BothUpdate(f) ==
    /\ f \in Filters
    /\ ModesStep(f,
                 IF rf_state[f] = "NOT_READY" THEN "READY" ELSE rf_state[f],
                 IF rf_state_atomic[f] = "NOT_READY" THEN "READY" ELSE rf_state_atomic[f],
                 IF producer.cv[f] = "blocked" THEN "ready" ELSE producer.cv[f],
                 producer.atomic[f])

\* await() is called on both
BothAwait(f) ==
    /\ producer.cv[f] # "blocked"
    /\ ModesStep(f, DeadlineCheck(rf_state[f]), DeadlineCheck(rf_state_atomic[f]),
                 CvAnswer(DeadlineCheck(rf_state[f])),
                 AtomicAnswer(DeadlineCheck(rf_state_atomic[f])))

\* the wait on the condition variable ends at the bound
CvAwaitTimesOut(f) ==
    /\ producer.cv[f] = "blocked" /\ DeadlinePassed
    /\ ModesStep(f, DeadlineCheck(rf_state[f]), rf_state_atomic[f],
                 CvAnswer(DeadlineCheck(rf_state[f])), producer.atomic[f])

\* is_ready_or_timeout() is called on both
BothIsReadyOrTimeout(f) ==
    /\ producer.cv[f] # "blocked"
    /\ ModesStep(f, DeadlineCheck(rf_state[f]), DeadlineCheck(rf_state_atomic[f]),
                 producer.cv[f], producer.atomic[f])

ModesNext ==
    \/ \E f \in Filters : BothUpdate(f)
    \/ \E f \in Filters : BothAwait(f)
    \/ \E f \in Filters : CvAwaitTimesOut(f)
    \/ \E f \in Filters : BothIsReadyOrTimeout(f)
    \/ Tick

SpecModes == InitModes /\ [][ModesNext]_vars

InitCancel ==
    /\ InitScanWith({NullExpr})
    /\ producer = [phase |-> "query", is_cancelled |-> FALSE, process_status |-> "OK"]

\* the query is cancelled
Cancel ==
    /\ producer.phase = "query" /\ ~producer.is_cancelled
    /\ producer' = [producer EXCEPT !.is_cancelled = TRUE]
    /\ UNCHANGED <<enable_pipeline_exec, virt, now, filterVars, conjVars, scanVars>>

CancelNext == Next \/ Cancel

SpecCancel == InitCancel /\ [][CancelNext]_vars

\* C18: once the query is cancelled, every get_next returns the cancelled
\* status and hands out neither a block nor a normal eos, with or without a
\* scanner context and also after the scan reached EOF.
C18_CancelledGetNextFails ==
    [][(IsCancelled /\ get_next) =>
           /\ get_next_ret' = "Cancelled"
           /\ block_queue' = block_queue]_vars

\* get_next has failed after the cancellation with a block queued by the
\* scanner context
CancelledWithBlockQueued ==
    /\ IsCancelled /\ scan_pc = "opened" /\ get_next_ret = "Cancelled"
    /\ scanner_ctx /\ block_queue # <<>>

\* get_next has failed after the cancellation on a scan at EOF that has no
\* scanner context
C18_Witness ==
    /\ IsCancelled /\ scan_pc = "opened" /\ get_next_ret = "Cancelled"
    /\ sinks.eos /\ ~scanner_ctx

(***************************************************************************)
(* create_texpr_literal_node<T>(data, node, precision, scale): the literal *)
(* expression node built from a value of primitive type T.                 *)
(***************************************************************************)
IntTypes == {"TYPE_TINYINT", "TYPE_SMALLINT", "TYPE_INT", "TYPE_BIGINT"}
DateTypes == {"TYPE_DATE", "TYPE_DATETIME", "TYPE_TIME"}
DateV2Types == {"TYPE_DATEV2", "TYPE_DATETIMEV2"}
DecimalV3Types == {"TYPE_DECIMAL32", "TYPE_DECIMAL64", "TYPE_DECIMAL128I"}
FloatTypes == {"TYPE_FLOAT", "TYPE_DOUBLE"}
StringTypes == {"TYPE_STRING", "TYPE_CHAR", "TYPE_VARCHAR"}

\* the primitive types the builder has a branch for
LiteralTypes ==
    {"TYPE_BOOLEAN", "TYPE_LARGEINT", "TYPE_DECIMALV2"} \cup IntTypes \cup DateTypes
        \cup DateV2Types \cup DecimalV3Types \cup FloatTypes \cup StringTypes

\* the primitive types a caller can instantiate the builder with
PrimitiveTypes ==
    LiteralTypes \cup {"INVALID_TYPE", "TYPE_NULL", "TYPE_HLL", "TYPE_OBJECT",
                       "TYPE_ARRAY", "TYPE_JSONB", "TYPE_TIMEV2"}

\* VecDateTimeValue::type()
TimeTypes == {"TIME_TIME", "TIME_DATE", "TIME_DATETIME"}

\* the largest precision and scale passed to the builder
MaxScale == 1

LiteralFields == {"bool_literal", "int_literal", "large_int_literal", "date_literal",
                  "decimal_literal", "float_literal", "string_literal"}

NotSet == [set |-> FALSE]

\* a TExprNode none of whose fields is set
EmptyNode == [fld \in LiteralFields \cup {"node_type", "type"} |-> NotSet]

\* a setter that leaves the node as it is
set_field_dropped(node, fld, v) == node

\* a thrift setter, (*node).__set_<fld>(v)
set_field(node, fld, v) == [node EXCEPT ![fld] = [set |-> TRUE, v |-> v]]

create_type_desc(T, precision, scale) ==
    [type |-> T, precision |-> precision, scale |-> scale]

\* to_string of a date, a large integer or a string value: its characters
to_string(v) == <<v>>

\* to_string(scale) of a decimal value
decimal_to_string(v, scale) == <<v, scale>>

\* the node after setting its node type, one literal field and its type
SetLiteral(node, node_type, fld, v, type_desc) ==
    set_field(set_field(set_field(node, "node_type", node_type), fld, v),
              "type", type_desc)

\* data is the value behind the pointer, time_type the type() of a date value
create_texpr_literal_node(T, data, time_type, node, precision, scale) ==
    CASE T = "TYPE_BOOLEAN" ->
           [status |-> "OK",
            node |-> SetLiteral(node, "BOOL_LITERAL", "bool_literal", data # 0,
                                create_type_desc("TYPE_BOOLEAN", 0, 0))]
      [] T \in IntTypes ->
           [status |-> "OK",
            node |-> SetLiteral(node, "INT_LITERAL", "int_literal", data,
                                create_type_desc(T, 0, 0))]
      [] T = "TYPE_LARGEINT" ->
           [status |-> "OK",
            node |-> SetLiteral(node, "LARGE_INT_LITERAL", "large_int_literal",
                                to_string(data), create_type_desc(T, 0, 0))]
      [] T \in DateTypes ->
           [status |-> "OK",
            node |-> SetLiteral(node, "DATE_LITERAL", "date_literal", to_string(data),
                                create_type_desc(
                                    CASE time_type = "TIME_DATE" -> "TYPE_DATE"
                                      [] time_type = "TIME_DATETIME" -> "TYPE_DATETIME"
                                      [] time_type = "TIME_TIME" -> "TYPE_TIME", 0, 0))]
      [] T \in DateV2Types ->
           [status |-> "OK",
            node |-> SetLiteral(node, "DATE_LITERAL", "date_literal", to_string(data),
                                create_type_desc(T, 0, 0))]
      [] T = "TYPE_DECIMALV2" ->
           [status |-> "OK",
            node |-> SetLiteral(node, "DECIMAL_LITERAL", "decimal_literal",
                                to_string(data), create_type_desc(T, precision, scale))]
      [] T \in DecimalV3Types ->
           [status |-> "OK",
            node |-> SetLiteral(node, "DECIMAL_LITERAL", "decimal_literal",
                                decimal_to_string(data, scale),
                                create_type_desc(T, precision, scale))]
      [] T \in FloatTypes ->
           [status |-> "OK",
            node |-> SetLiteral(node, "FLOAT_LITERAL", "float_literal", data,
                                create_type_desc(T, 0, 0))]
      [] T \in StringTypes ->
           [status |-> "OK",
            node |-> SetLiteral(node, "STRING_LITERAL", "string_literal", to_string(data),
                                create_type_desc("TYPE_STRING", 0, 0))]
      [] OTHER -> [status |-> "InvalidArgument", node |-> node]

InitLiteral ==
    /\ InitScan
    /\ enable_pipeline_exec = FALSE
    /\ virt = The(ScanVirtProfiles)
    /\ ctxs = <<>>
    /\ producer = [phase |-> "literal", T |-> "INVALID_TYPE", data |-> 0,
                   scale |-> 0, status |-> "none", node |-> EmptyNode]

\* a caller builds the literal of a value into a fresh node; a call for a
\* type without a branch may also be given the node built last
CreateLiteral(T, data, time_type, fresh, precision, scale) ==
    /\ producer.phase = "literal"
    /\ fresh \/ T \notin LiteralTypes
    /\ \E r \in {create_texpr_literal_node(T, data, time_type,
                     IF fresh THEN EmptyNode ELSE producer.node, precision, scale)} :
          producer' = [phase |-> "literal", T |-> T, data |-> data, scale |-> scale,
                       status |-> r.status,
                       node |-> r.node]
    /\ UNCHANGED <<enable_pipeline_exec, virt, now, filterVars, conjVars, scanVars>>

LiteralNext ==
    \E T \in PrimitiveTypes, data \in 0 .. 1, time_type \in TimeTypes, fresh \in BOOLEAN,
       precision \in 0 .. MaxScale, scale \in 0 .. MaxScale :
        CreateLiteral(T, data, time_type, fresh, precision, scale)

SpecLiteral == InitLiteral /\ [][LiteralNext]_vars

\* the node type and the literal field of a built literal, by primitive type
LiteralKind(T) ==
    CASE T = "TYPE_BOOLEAN" -> <<"BOOL_LITERAL", "bool_literal">>
      [] T \in IntTypes -> <<"INT_LITERAL", "int_literal">>
      [] T = "TYPE_LARGEINT" -> <<"LARGE_INT_LITERAL", "large_int_literal">>
      [] T \in DateTypes \cup DateV2Types -> <<"DATE_LITERAL", "date_literal">>
      [] T \in DecimalV3Types \cup {"TYPE_DECIMALV2"} -> <<"DECIMAL_LITERAL", "decimal_literal">>
      [] T \in FloatTypes -> <<"FLOAT_LITERAL", "float_literal">>
      [] T \in StringTypes -> <<"STRING_LITERAL", "string_literal">>

\* the value a literal field holds, read back as the number it was built from
LiteralValue(fld, v) ==
    CASE fld = "bool_literal" -> (IF v THEN 1 ELSE 0)
      [] fld \in {"int_literal", "float_literal"} -> v
      [] OTHER -> v[1]

\* a node the caller had before the call: the one held, or a fresh one
NodeBefore(node) == node \in {producer.node, EmptyNode}

\* C19: create_texpr_literal_node returns OK and sets the node type and the
\* literal value for every supported primitive type; for every other type it
\* returns InvalidArgument and leaves the output node unmodified.
C19_LiteralBuilderTotalOnSupportedTypes ==
    [][producer.phase = "literal" =>
          IF producer'.T \in LiteralTypes
          THEN /\ producer'.status = "OK"
               /\ producer'.node.node_type = [set |-> TRUE, v |-> LiteralKind(producer'.T)[1]]
               /\ producer'.node[LiteralKind(producer'.T)[2]].set
               /\ LiteralValue(LiteralKind(producer'.T)[2],
                               producer'.node[LiteralKind(producer'.T)[2]].v)
                      = producer'.data
          ELSE /\ producer'.status = "InvalidArgument"
               /\ NodeBefore(producer'.node)]_vars

\* a string literal has been built, and an unsupported type was refused with
\* a built node in hand
C19_Witness ==
    /\ producer.phase = "literal"
    /\ producer.T \notin LiteralTypes
    /\ producer.status = "InvalidArgument"
    /\ producer.node.node_type = [set |-> TRUE, v |-> "STRING_LITERAL"]
    /\ producer.node.string_literal = [set |-> TRUE, v |-> <<1>>]

(***************************************************************************)
(* Comparisons with a NULL literal.                                        *)
(***************************************************************************)
\* the binary comparisons of a column with the NULL literal in the tree e
NullComparisons(e) ==
    {l \in AndLeaves(e) : l.node = "BINARY_PRED" /\ l.slot \in Slots /\ l.lit = NullV}

\* C20: a binary comparison of a column with a NULL literal is never absorbed
\* with the column's value range left unrestricted: after normalization the
\* scan is at EOF, or the predicate is still in the residual conjunct tree, or
\* the column's value range has been narrowed.
C20_NullComparisonNotAbsorbed ==
    scan_pc = "normalized" =>
        \A l \in NullComparisons(orig_root) :
            \/ sinks.eos
            \/ l \in AndLeaves(ResidualRoot)
            \/ sinks.slot_id_to_value_range[l.slot] # WholeRange(SlotIsNullable(l.slot))

\* a comparison with NULL other than = and != is never absorbed
NullOrderComparisonKept ==
    scan_pc = "normalized" =>
        \A l \in NullComparisons(orig_root) :
            l.fn \in {"lt", "le", "gt", "ge"} =>
                sinks.eos \/ l \in AndLeaves(ResidualRoot)

(***************************************************************************)
(* What normalization does with one leaf of the plan's conjunct tree.      *)
(***************************************************************************)
\* no other leaf of the tree acts on the column of leaf l
AloneOnSlot(l) == \A k \in AndLeaves(orig_root) : k # l => k.slot # l.slot

\* the IN predicates of the tree whose value set exceeds the push-down cap
InAboveCap ==
    {l \in AndLeaves(orig_root) :
        /\ l.node = "IN_PRED" /\ ~l.not_in /\ l.slot \in Slots /\ AloneOnSlot(l)
        /\ Cardinality(l.vals) > max_pushdown_conditions_per_column}

InSetSinkHolds(l) ==
    \E i \in 1 .. Len(sinks.in_filters) : sinks.in_filters[i] = [slot |-> l.slot, vals |-> l.vals]

RangeUnchanged(s) == sinks.slot_id_to_value_range[s] = WholeRange(SlotIsNullable(s))

InResidual(l) == l \in AndLeaves(ResidualRoot)

\* C21: an IN predicate whose value set exceeds the per-column push-down cap
\* is recorded in the in-set sink, the column's value range is unchanged and
\* the predicate remains in the residual conjunct tree.
C21_InAboveCapGoesToInSetSink ==
    scan_pc = "normalized" =>
        \A l \in InAboveCap : InSetSinkHolds(l) /\ RangeUnchanged(l.slot) /\ InResidual(l)

\* C21, as the code has it: the cap applies to the IN predicate of a runtime
\* filter (one carrying its hybrid set), which goes to the in-set sink with
\* the range unchanged and stays in the residual tree unless its column is a
\* key column; the values of an ordinary IN predicate become the column's
\* fixed-value range whatever their number.
C21_CapAppliesToRuntimeFilterIn ==
    scan_pc = "normalized" =>
        \A l \in InAboveCap :
            /\ InResidual(l) = ~is_key_column(virt, l.slot)
            /\ IF l.hybrid
               THEN InSetSinkHolds(l) /\ RangeUnchanged(l.slot)
               ELSE /\ ~InSetSinkHolds(l)
                    /\ sinks.slot_id_to_value_range[l.slot] =
                           [fixed |-> TRUE, vals |-> l.vals, contain_null |-> FALSE]

\* a runtime filter's IN predicate above the cap on a column that is not a
\* key column: in the in-set sink and still in the residual tree
C21_Witness ==
    /\ scan_pc = "normalized"
    /\ \E l \in InAboveCap :
          l.hybrid /\ InSetSinkHolds(l) /\ RangeUnchanged(l.slot) /\ InResidual(l)

\* the tree is one leaf, or an and-expression whose right child is a leaf
LastLeaf == IF is_and_expr(orig_root) THEN orig_root.kids[2] ELSE orig_root

\* the sinks when normalization reaches the last leaf
SinksBefore ==
    IF is_and_expr(orig_root) THEN normalize_predicate(virt, orig_root.kids[1], InitSinks).st
    ELSE InitSinks

\* the last leaf is c != lit with a literal that is not NULL
LastIsNe ==
    /\ scan_pc = "normalized"
    /\ LastLeaf.node = "BINARY_PRED" /\ LastLeaf.fn = "ne"
    /\ LastLeaf.slot \in Slots /\ LastLeaf.lit # NullV

\* C22: a not-equal predicate never narrows the column's value range: it
\* leaves the range as it was, whatever its form, and only adds the literal
\* to the not-in ranges.
C22_NeNeverNarrowsRange ==
    LastIsNe =>
        /\ sinks.slot_id_to_value_range = SinksBefore.slot_id_to_value_range
        /\ sinks.not_in_value_ranges =
               Append(SinksBefore.not_in_value_ranges,
                      [slot |-> LastLeaf.slot, vals |-> {LastLeaf.lit}])

\* C22, by the form of the range: on a range that is not a fixed-value set
\* the range is unchanged and the literal is added to the not-in ranges; on a
\* fixed-value set the literal is removed from the set and the not-in ranges
\* are unchanged.
C22_NeNarrowsOnlyFixedValueRange ==
    LastIsNe =>
        IF is_fixed_value_range(SinksBefore.slot_id_to_value_range[LastLeaf.slot])
        THEN /\ sinks.slot_id_to_value_range =
                    [SinksBefore.slot_id_to_value_range EXCEPT
                        ![LastLeaf.slot] = [fixed |-> @.vals \ {LastLeaf.lit} # {},
                                            vals |-> @.vals \ {LastLeaf.lit},
                                            contain_null |-> @.contain_null]]
             /\ sinks.not_in_value_ranges = SinksBefore.not_in_value_ranges
        ELSE /\ sinks.slot_id_to_value_range = SinksBefore.slot_id_to_value_range
             /\ sinks.not_in_value_ranges =
                    Append(SinksBefore.not_in_value_ranges,
                           [slot |-> LastLeaf.slot, vals |-> {LastLeaf.lit}])

\* c != 1 after c IN (0, 1): the fixed-value set is down to 0
C22_Witness ==
    /\ LastIsNe
    /\ is_fixed_value_range(SinksBefore.slot_id_to_value_range[LastLeaf.slot])
    /\ LastLeaf.lit \in SinksBefore.slot_id_to_value_range[LastLeaf.slot].vals
    /\ LastLeaf.lit \notin sinks.slot_id_to_value_range[LastLeaf.slot].vals
    /\ sinks.slot_id_to_value_range[LastLeaf.slot].vals # {}

\* the last leaf is c NOT IN (..)
LastIsNotIn ==
    /\ scan_pc = "normalized"
    /\ LastLeaf.node = "IN_PRED" /\ LastLeaf.not_in /\ LastLeaf.slot \in Slots

\* the range of the last leaf's column when normalization reaches the leaf
RangeBefore == SinksBefore.slot_id_to_value_range[LastLeaf.slot]

\* the capacity guard of NOT IN is exceeded
NotInGuardExceeded ==
    /\ ~is_fixed_value_range(RangeBefore)
    /\ Cardinality(LastLeaf.vals) > max_pushdown_conditions_per_column

\* the push-down of the last leaf was accepted: it left the residual tree iff
\* its column is a key column
LastAccepted == InResidual(LastLeaf) = ~is_key_column(virt, LastLeaf.slot)

\* C23: the capacity guard of NOT IN: on a range that is not a fixed-value
\* set a NOT IN set above the cap records nothing, leaves the range unchanged
\* and stays in the residual tree; otherwise the values are recorded in the
\* not-in ranges, or removed from the fixed-value set, and the push-down is
\* accepted.
C23_NotInCapacityGuard ==
    LastIsNotIn =>
        IF NotInGuardExceeded
        THEN /\ sinks.not_in_value_ranges = SinksBefore.not_in_value_ranges
             /\ sinks.slot_id_to_value_range = SinksBefore.slot_id_to_value_range
             /\ InResidual(LastLeaf)
        ELSE IF is_fixed_value_range(RangeBefore)
        THEN /\ sinks.slot_id_to_value_range[LastLeaf.slot].vals =
                    RangeBefore.vals \ LastLeaf.vals
             /\ sinks.not_in_value_ranges = SinksBefore.not_in_value_ranges
             /\ LastAccepted
        ELSE /\ sinks.not_in_value_ranges =
                    Append(SinksBefore.not_in_value_ranges,
                           [slot |-> LastLeaf.slot, vals |-> LastLeaf.vals])
             /\ sinks.slot_id_to_value_range = SinksBefore.slot_id_to_value_range
             /\ LastAccepted

\* a NOT IN above the cap kept in the residual tree of a key column
C23_Witness ==
    /\ LastIsNotIn /\ NotInGuardExceeded
    /\ is_key_column(virt, LastLeaf.slot)
    /\ InResidual(LastLeaf)
    /\ sinks.not_in_value_ranges = <<>>

\* a NOT IN that took values off a fixed-value set
NotInRemovedFromFixed ==
    /\ LastIsNotIn /\ is_fixed_value_range(RangeBefore)
    /\ sinks.slot_id_to_value_range[LastLeaf.slot].vals # RangeBefore.vals

(***************************************************************************)
(* The AND node at the root of the plan's conjunct tree.                   *)
(***************************************************************************)
\* what normalizing the left child gives, and the right child after it
LeftNormalized == normalize_predicate(virt, orig_root.kids[1], InitSinks)

RightNormalized == normalize_predicate(virt, orig_root.kids[2], LeftNormalized.st)

\* the conjunct context was retired: moved to the stale contexts
ContextRetired ==
    /\ vconjunct_ctx_ptr = 0 /\ common_vexpr_ctxs_pushdown = 0
    /\ \E i \in 1 .. Len(stale_vexpr_ctxs) : stale_vexpr_ctxs[i] = 1

\* C24: an AND node both of whose children leave a residual is kept over the
\* two normalized children; if exactly one child was absorbed the node is
\* replaced by the other child's residual; if both were absorbed nothing is
\* left, and at the root the conjunct context is retired and no residual
\* predicate is evaluated.
C24_AndKeepsWhatIsLeft ==
    (scan_pc = "normalized" /\ is_and_expr(orig_root)) =>
        CASE LeftNormalized.out # NullExpr /\ RightNormalized.out # NullExpr ->
                 /\ ResidualRoot =
                        [orig_root EXCEPT !.kids = <<LeftNormalized.out, RightNormalized.out>>]
                 /\ ~ContextRetired
          [] LeftNormalized.out # NullExpr /\ RightNormalized.out = NullExpr ->
                 ResidualRoot = LeftNormalized.out /\ ~ContextRetired
          [] LeftNormalized.out = NullExpr /\ RightNormalized.out # NullExpr ->
                 ResidualRoot = RightNormalized.out /\ ~ContextRetired
          [] OTHER ->
                 /\ ContextRetired
                 /\ ResidualRoot = NullExpr
                 /\ ScannerBlock = {row \in Rows : ~sinks.eos /\ SinksAccept(sinks, row)}

\* an and-expression under the root lost one child and the root lost the
\* other: a single leaf is left of three
C24_Witness ==
    /\ scan_pc = "normalized" /\ is_and_expr(orig_root)
    /\ is_and_expr(orig_root.kids[1]) /\ ~is_and_expr(orig_root.kids[2])
    /\ RightNormalized.out = NullExpr
    /\ ResidualRoot = orig_root.kids[1].kids[2]
    /\ ~sinks.eos

\* both children absorbed: the context is retired
AndFullyAbsorbed ==
    /\ scan_pc = "normalized" /\ is_and_expr(orig_root)
    /\ ContextRetired /\ ~sinks.eos

(***************************************************************************)
(* Compound predicates: OR and NOT.                                        *)
(***************************************************************************)
\* the last leaf is a compound predicate with function fn
LastIsCompound(fn) ==
    /\ scan_pc = "normalized"
    /\ LastLeaf.node = "COMPOUND_PRED" /\ LastLeaf.fn = fn

\* the sinks but for the compound value ranges
HardSinks(st) == [st EXCEPT !.compound_value_ranges = <<>>]

\* the compound value ranges recorded for the last leaf
NewCompoundRanges ==
    SubSeq(sinks.compound_value_ranges, Len(SinksBefore.compound_value_ranges) + 1,
           Len(sinks.compound_value_ranges))

\* C25: normalizing an OR predicate creates no hard constraint: the value
\* ranges of the columns, the not-in ranges and the in, bloom, bitmap and
\* function sinks are unchanged, the EOF flag is not set by it, only compound
\* value ranges built on copies of the column ranges are recorded, and the
\* OR subtree stays in the residual tree.
C25_OrCreatesNoHardConstraint ==
    LastIsCompound("or") =>
        /\ HardSinks(sinks) = HardSinks(EosOfRanges(SinksBefore))
        /\ SubSeq(sinks.compound_value_ranges, 1, Len(SinksBefore.compound_value_ranges))
               = SinksBefore.compound_value_ranges
        /\ \A i \in 1 .. Len(NewCompoundRanges) :
               NewCompoundRanges[i].range =
                   SinksBefore.slot_id_to_value_range[NewCompoundRanges[i].slot]
        /\ InResidual(LastLeaf)

\* an OR of two comparisons after a comparison that narrowed the column's
\* range: two compound value ranges on the narrowed range, the OR kept
C25_Witness ==
    /\ LastIsCompound("or")
    /\ Len(NewCompoundRanges) = 2
    /\ ~RangeUnchanged(NewCompoundRanges[1].slot)
    /\ InResidual(LastLeaf)
    /\ ~sinks.eos

\* the predicate under the NOT that is the last leaf
Negated == LastLeaf.kids[1]

\* the leaf that holds where the leaf k does not
Inverted(k) ==
    CASE k.node = "BINARY_PRED" -> [k EXCEPT !.fn = InverseFn(k.fn)]
      [] k.node = "IN_PRED" ->
             [k EXCEPT !.not_in = ~k.not_in, !.fn = IF k.not_in THEN "in" ELSE "not_in"]
      [] OTHER -> k

\* the sinks had the NOT been folded into the leaf under it
FoldedSinks ==
    IF Negated.node = "FUNCTION_CALL"
    THEN IF /\ is_key_column(virt, Negated.slot) /\ virt.enable_function_pushdown
            /\ should_push_down_function_filter(virt, Negated) # "UNACCEPTABLE"
         THEN [SinksBefore EXCEPT !.push_down_functions =
                   Append(@, [opposite |-> TRUE, slot |-> Negated.slot, vals |-> Negated.vals])]
         ELSE SinksBefore
    ELSE normalize_predicate(virt, Inverted(Negated), SinksBefore).st

\* C26: a NOT over a single-column leaf is folded into the leaf by inverting
\* its operator, so that the column's sinks reflect the inverted predicate.
C26_NotIsFoldedIntoLeaf ==
    LastIsCompound("not") => HardSinks(sinks) = HardSinks(EosOfRanges(FoldedSinks))

\* What the code does with a NOT over a single-column leaf: it is not folded;
\* the value ranges, the not-in ranges and the push-down functions are as
\* they were, the NOT stays in the residual tree, and for a comparison under
\* the NOT one compound value range is recorded with the comparison's own
\* operator.
NotIsKeptUnfolded ==
    LastIsCompound("not") =>
        /\ HardSinks(sinks) = HardSinks(EosOfRanges(SinksBefore))
        /\ InResidual(LastLeaf)
        /\ IF Negated.node = "BINARY_PRED"
           THEN /\ Len(NewCompoundRanges) = 1
                /\ NewCompoundRanges[1].slot = Negated.slot
                /\ NewCompoundRanges[1].fn = Negated.fn
           ELSE NewCompoundRanges = <<>>

\* NOT (c < 1) on a key column: the range of c is whole and the compound
\* value range says lt
NotComparisonKept ==
    /\ LastIsCompound("not") /\ ~is_and_expr(orig_root)
    /\ Negated.node = "BINARY_PRED" /\ Negated.fn = "lt"
    /\ is_key_column(virt, Negated.slot)
    /\ RangeUnchanged(Negated.slot)
    /\ NewCompoundRanges[1].fn = "lt"
    /\ InResidual(LastLeaf)

\* NOT like(c, ..) where function push-down is on: no function is recorded
NotFunctionNotRecorded ==
    /\ LastIsCompound("not") /\ Negated.node = "FUNCTION_CALL"
    /\ is_key_column(virt, Negated.slot) /\ virt.enable_function_pushdown
    /\ sinks.push_down_functions = SinksBefore.push_down_functions

(***************************************************************************)
(* Casts of the column: type compatibility and date truncation.            *)
(***************************************************************************)
\* the last leaf compares a cast of a column
LastIsCast ==
    scan_pc = "normalized" /\ LastLeaf.slot \in Slots /\ LastLeaf.cast # "none"

\* a conversion that takes no two values of the column to the same value
Lossless(c) == \A v, w \in Vals : CastValue(c, v) = CastValue(c, w) => v = w

\* the last leaf left the sinks as they were and is in the residual tree
LastNotPushedDown ==
    /\ HardSinks(sinks) = HardSinks(EosOfRanges(SinksBefore))
    /\ InResidual(LastLeaf)

\* C27: a predicate whose column side has another type than the column is
\* pushed down only if the conversion is lossless; under a narrowing cast
\* (datetime to date) the column's value range is unchanged and the
\* predicate stays in the residual conjunct tree.
C27_LossyCastNotPushedDown ==
    (LastIsCast /\ ChildType(LastLeaf) # SlotType(LastLeaf.slot) /\ ~Lossless(LastLeaf.cast))
        => LastNotPushedDown

\* C28: a comparison whose column side is a cast of a datetime column to
\* date, CAST(CAST(col AS DATE) AS DATETIME) included, is never pushed down:
\* the column's value range is unchanged and the predicate stays in the
\* residual conjunct tree.
C28_DateCastNeverPushedDown ==
    (LastIsCast /\ LastLeaf.cast \in {"date", "date_datetime"}) =>
        /\ sinks.slot_id_to_value_range[LastLeaf.slot] =
               EosOfRanges(SinksBefore).slot_id_to_value_range[LastLeaf.slot]
        /\ InResidual(LastLeaf)

\* what the type test does refuse: a cast to another type that is not a date
\* type, and a cast that gives back a datetime
RefusedCastNotPushedDown ==
    (LastIsCast /\ LastLeaf.cast \in {"bigint", "date_datetime"}) => LastNotPushedDown

\* CAST(c AS DATE) = 0 alone on a key column: c is fixed to the midnight, the
\* predicate is off the tree and the row of the half day after is refused
DateCastLosesRow ==
    /\ LastIsCast /\ ~is_and_expr(orig_root)
    /\ LastLeaf.cast = "date" /\ LastLeaf.fn = "eq"
    /\ sinks.slot_id_to_value_range[1] = [fixed |-> TRUE, vals |-> {0}, contain_null |-> FALSE]
    /\ ~InResidual(LastLeaf)
    /\ \E row \in Rows : TreeAccepts(orig_root, row) /\ row \notin ScannerBlock

\* CAST(CAST(c AS DATE) AS DATETIME) = 0 alone on a key column is refused
DoubleCastRefused ==
    /\ LastIsCast /\ ~is_and_expr(orig_root)
    /\ LastLeaf.cast = "date_datetime" /\ is_key_column(virt, 1)
    /\ RangeUnchanged(1) /\ InResidual(LastLeaf)

(***************************************************************************)
(* When a leaf leaves the residual conjunct tree.                          *)
(***************************************************************************)
\* the last leaf is a predicate on a column
LastOnColumn ==
    scan_pc = "normalized" /\ LastLeaf.node # "COMPOUND_PRED" /\ LastLeaf.slot \in Slots

\* the push-down type the normalizers left for the last leaf
LastPdt ==
    IF is_predicate_acting_on_slot(LastLeaf)
    THEN PushDownChain(1, virt, LastLeaf, LastLeaf.slot,
                       [st |-> SinksBefore, pdt |-> "UNACCEPTABLE"]).pdt
    ELSE "UNACCEPTABLE"

\* the residual tree is what the left child left: the last leaf is off it
LastRemoved ==
    ResidualRoot = IF is_and_expr(orig_root) THEN LeftNormalized.out ELSE NullExpr

\* the last leaf changed the value range of its column
LastNarrowed ==
    sinks.slot_id_to_value_range[LastLeaf.slot] #
        SinksBefore.slot_id_to_value_range[LastLeaf.slot]

\* C29: a leaf predicate is removed from the residual conjunct tree only
\* when its push-down was ACCEPTABLE and its column is a key column; with a
\* push-down PARTIAL_ACCEPTABLE or UNACCEPTABLE, or on a column that is not a
\* key column, it remains in the residual tree even if it narrowed a value
\* range.
C29_RemovedOnlyIfAcceptableOnKey ==
    LastOnColumn =>
        /\ LastRemoved => (LastPdt = "ACCEPTABLE" /\ is_key_column(virt, LastLeaf.slot))
        /\ (LastPdt # "ACCEPTABLE" \/ ~is_key_column(virt, LastLeaf.slot))
               => InResidual(LastLeaf)

\* a comparison that narrowed the range of a column that is not a key column
\* and is still in the residual tree
C29_Witness ==
    /\ LastOnColumn /\ LastLeaf.node = "BINARY_PRED"
    /\ LastPdt = "ACCEPTABLE" /\ ~is_key_column(virt, LastLeaf.slot)
    /\ LastNarrowed
    /\ InResidual(LastLeaf) /\ ~LastRemoved

\* a leaf on a key column whose push-down is PARTIAL_ACCEPTABLE stays
PartialOnKeyStays ==
    /\ LastOnColumn /\ LastPdt = "PARTIAL_ACCEPTABLE" /\ is_key_column(virt, LastLeaf.slot)
    /\ InResidual(LastLeaf)

\* a leaf on a key column whose push-down is ACCEPTABLE is off the tree
AcceptableOnKeyRemoved ==
    /\ LastOnColumn /\ LastPdt = "ACCEPTABLE" /\ is_key_column(virt, LastLeaf.slot)
    /\ LastRemoved

(***************************************************************************)
(* A filter that becomes ready while the scan acquires its filters.        *)
(* alloc_resource runs to its end, the blocked task is polled, the clock   *)
(* advances, and the scanner threads keep calling                          *)
(* try_append_late_arrival_runtime_filter while there is a scanner         *)
(* context; the updates, get_next and release_resource come when they come.*)
(***************************************************************************)
InitLate == InitScanWith({NullExpr, BinExpr("ge", 1, 0, 1)}) /\ producer = NoProducer

LateFairness ==
    /\ WF_vars(AllocResource)
    /\ WF_vars(AcquireCheck)
    /\ WF_vars(AcquireDecide)
    /\ WF_vars(AcquireWaitForRf)
    /\ WF_vars(AcquireOkAndOpen)
    /\ WF_vars(RuntimeFiltersAreReadyOrTimeout)
    /\ WF_vars(Tick)
    /\ WF_vars(try_append_late_arrival_runtime_filter)

SpecLate == InitLate /\ [][Next]_vars /\ LateFairness

\* filter f is ready and its predicate is not among the conjuncts
ReadyUnapplied(f) == is_ready(f) /\ ~apply_mark[f]

\* no scanner thread calls try_append_late_arrival_runtime_filter any more:
\* the scan was released, or it opened at EOF without a scanner context
LateArrivalOver ==
    \/ scan_pc \in {"released", "cancelled"}
    \/ (scan_pc = "opened" /\ ~scanner_ctx)

\* C30: no ready filter is lost to a race: a subscribed filter that becomes
\* READY at any point relative to the checks of _acquire_runtime_filter does
\* not stay unapplied forever: the acquisition applies it or, as long as
\* try_append_late_arrival_runtime_filter keeps being called, a later call
\* appends it.
C30_ReadyFilterNotLost ==
    \A f \in Filters : ReadyUnapplied(f) ~> (apply_mark[f] \/ LateArrivalOver)

\* the acquisition read the filter as not ready, the filter became ready
\* before the following state check, and the scan opened without it: the
\* filter is left to the late arrival path
C30_Witness ==
    /\ scan_pc = "opened" /\ scanner_ctx
    /\ ~is_all_rf_applied
    /\ \E f \in Filters : ReadyUnapplied(f)

\* await() returned false and the filter is ready at the following check
ReadyBetweenAwaitAndCheck ==
    /\ scan_pc = "acquire" /\ acq.phase = "decide"
    /\ ~acq.ready /\ is_ready(acq.i) /\ ~apply_mark[acq.i]

\* while the scan runs, a ready filter that is not applied is known to be
\* missing or the acquisition has yet to decide on it
ReadyUnappliedIsFlagged ==
    (scan_pc = "opened" /\ scanner_ctx) =>
        \A f \in Filters : ReadyUnapplied(f) => ~is_all_rf_applied

(***************************************************************************)
(* Each subscribed filter is applied once.                                 *)
(***************************************************************************)
\* how many times the predicate of filter f occurs in the tree e
RECURSIVE CountRf(_, _)
CountRf(e, f) ==
    IF e = NullExpr THEN 0
    ELSE IF e.node = "COMPOUND_PRED"
    THEN IF Len(e.kids) = 0 THEN 0
         ELSE IF Len(e.kids) = 1 THEN CountRf(e.kids[1], f)
         ELSE CountRf(e.kids[1], f) + CountRf(e.kids[2], f)
    ELSE IF e.rf = f THEN 1 ELSE 0

\* how many times the predicate of filter f is among the fetched expressions
\* of the running acquisition
FetchedNow(f) == Cardinality({j \in 1 .. Len(acq.vexprs) : acq.vexprs[j].rf = f})

\* the predicate of filter f has been put into a conjunct tree
Appended(f) == IF f \in rf_vexpr_set THEN 1 ELSE 0

\* filter f was fetched once at most, and only with its mark set; its
\* predicate occurs once at most in every conjunct tree
AppliedOnce(f) ==
    /\ FetchedNow(f) + Appended(f) <= 1
    /\ FetchedNow(f) + Appended(f) = 1 => apply_mark[f]
    /\ \A k \in 1 .. Len(ctxs) : CountRf(ctxs[k].root, f) <= 1

\* C31: each subscribed filter is applied at most once: over any sequence of
\* acquisitions and late-arrival calls its apply_mark goes from false to true
\* once at most and never back, its expressions are fetched once at most, and
\* its predicate occurs once at most in the conjunct tree.
C31_FilterAppliedAtMostOnce ==
    /\ [](\A f \in Filters : AppliedOnce(f))
    /\ [][\A f \in Filters : apply_mark[f] => apply_mark'[f]]_vars

\* one filter applied by an acquisition that returned WaitForRf and one by a
\* later call: both marked, and the tree in place holds each predicate once
C31_Witness ==
    /\ scan_pc = "opened"
    /\ Len(stale_vexpr_ctxs) >= 1
    /\ \A f \in Filters : apply_mark[f] /\ CountRf(RootOf(ConjState), f) = 1

\* an acquisition after WaitForRf that meets a filter already applied
ReacquireMeetsApplied ==
    /\ scan_pc = "acquire" /\ acq.phase = "decide"
    /\ apply_mark[acq.i] /\ acq.ready

(***************************************************************************)
(* What _acquire_runtime_filter returns.                                   *)
(***************************************************************************)
\* a call of _acquire_runtime_filter is at its first statement
AcquireStarts == scan_pc = "acquire" /\ acq.i = 1 /\ acq.phase = "check"

\* the state check of lines 363-365 on the filter in hand: after the step the
\* filter is unapplied and it was still NOT_READY
UnappliedAndNotReady ==
    ~apply_mark'[acq.i] /\ current_state(acq.i) = "NOT_READY"

AboutToWaitForRf ==
    /\ scan_pc = "acquire" /\ acq.phase = "finish" /\ blocked_by_rf
    /\ \E f \in Filters : ~apply_mark[f]

(***************************************************************************)
(* Two scanner threads on the conjunct context: one in                     *)
(* try_append_late_arrival_runtime_filter, statement by statement, and one *)
(* in clone_vconjunct_ctx. producer holds the threads:                     *)
(*   rf_locks   who holds _rf_locks                                        *)
(*   late_pc    where the appending thread is                              *)
(*   old_ctx    the context in place when the append began                 *)
(*   new_ctx    new_vconjunct_ctx_ptr                                      *)
(*   n          current_arrived_rf_num                                     *)
(*   clone_pc   where the cloning thread is                                *)
(*   installed  the last context fully installed when the clone began      *)
(*   cloned     the context the clone copied (0: none)                     *)
(* The test of _vconjunct_ctx_ptr at line 1341 is made without the lock    *)
(* while line 429 moves the pointer away and line 431 resets it: the test  *)
(* reads whatever value the pointer has at that moment.                    *)
(***************************************************************************)
\* the pointer after reset(new VExprContext*): a cell nothing was stored in
UnsetCell == -1

ThreadsIdle ==
    [phase |-> "threads", rf_locks |-> "free", late_pc |-> "idle", old_ctx |-> 0,
     new_ctx |-> 0, n |-> 0, clone_pc |-> "idle", installed |-> 0, cloned |-> 0]

InitClone == InitScanWith(BaseConjuncts) /\ producer = ThreadsIdle

ScannersRun == producer.phase = "threads" /\ scan_pc = "opened" /\ scanner_ctx

\* try_append_late_arrival_runtime_filter answering from _is_all_rf_applied
LateFastPath ==
    /\ ScannersRun /\ producer.late_pc = "idle"
    /\ is_all_rf_applied
    /\ arrived_rf_num' = NumFilters
    /\ UNCHANGED <<producer, enable_pipeline_exec, virt, now, filterVars, conjVars, scan_pc, acq,
                   apply_mark, blocked_by_rf, is_all_rf_applied, sinks, orig_root,
                   scanner_ctx, block_queue, get_next_ret>>

\* lines 1307-1330 and _append_rf_into_conjuncts up to line 427: the lock is
\* taken, the loop marks the ready filters, and with something to append the
\* new context is built in the pool
LateLockAndBuild ==
    /\ ScannersRun /\ producer.late_pc = "idle" /\ producer.rf_locks = "free"
    /\ ~is_all_rf_applied
    /\ LET r == LateLoop(1, apply_mark, <<>>, 0)
           c == append_rf_into_conjuncts(ConjState, r.vexprs)
       IN /\ apply_mark' = r.marks
          /\ IF r.vexprs = <<>>
             THEN /\ is_all_rf_applied' = (r.n = NumFilters)
                  /\ arrived_rf_num' = r.n
                  /\ UNCHANGED <<producer, rf_vexpr_set, ctxs>>
             ELSE /\ rf_vexpr_set' = c.rf_vexpr_set
                  /\ ctxs' = c.ctxs
                  /\ producer' = [producer EXCEPT !.rf_locks = "late", !.late_pc = "built",
                                                  !.old_ctx = vconjunct_ctx_ptr,
                                                  !.new_ctx = c.vconjunct_ctx_ptr, !.n = r.n]
                  /\ UNCHANGED <<is_all_rf_applied, arrived_rf_num>>
    /\ UNCHANGED <<enable_pipeline_exec, virt, now, filterVars, vconjunct_ctx_ptr,
                   stale_vexpr_ctxs, common_vexpr_ctxs_pushdown, scan_pc, acq, blocked_by_rf,
                   sinks, orig_root, scanner_ctx, block_queue, get_next_ret>>

\* lines 428-430: _stale_vexpr_ctxs.push_back(std::move(_vconjunct_ctx_ptr))
AppendMove ==
    /\ producer.phase = "threads" /\ producer.late_pc = "built"
    /\ IF vconjunct_ctx_ptr # 0
       THEN /\ stale_vexpr_ctxs' = Append(stale_vexpr_ctxs, vconjunct_ctx_ptr)
            /\ vconjunct_ctx_ptr' = 0
       ELSE UNCHANGED <<stale_vexpr_ctxs, vconjunct_ctx_ptr>>
    /\ producer' = [producer EXCEPT !.late_pc = "moved"]
    /\ UNCHANGED <<enable_pipeline_exec, virt, now, filterVars, rf_vexpr_set, ctxs,
                   common_vexpr_ctxs_pushdown, scanVars>>

\* line 431: _vconjunct_ctx_ptr.reset(new VExprContext*)
AppendReset ==
    /\ producer.phase = "threads" /\ producer.late_pc = "moved"
    /\ vconjunct_ctx_ptr' = UnsetCell
    /\ producer' = [producer EXCEPT !.late_pc = "reset"]
    /\ UNCHANGED <<enable_pipeline_exec, virt, now, filterVars, rf_vexpr_set, ctxs,
                   stale_vexpr_ctxs, common_vexpr_ctxs_pushdown, scanVars>>

\* line 432, *_vconjunct_ctx_ptr = new_vconjunct_ctx_ptr, and the end of
\* try_append_late_arrival_runtime_filter, which gives the lock back
AppendStore ==
    /\ producer.phase = "threads" /\ producer.late_pc = "reset"
    /\ vconjunct_ctx_ptr' = producer.new_ctx
    /\ is_all_rf_applied' = (producer.n = NumFilters)
    /\ arrived_rf_num' = producer.n
    /\ producer' = [producer EXCEPT !.late_pc = "idle", !.rf_locks = "free"]
    /\ UNCHANGED <<enable_pipeline_exec, virt, now, filterVars, rf_vexpr_set, ctxs,
                   stale_vexpr_ctxs, common_vexpr_ctxs_pushdown, scan_pc, acq, apply_mark,
                   blocked_by_rf, sinks, orig_root, scanner_ctx, block_queue, get_next_ret>>

\* the context last installed in full
InstalledCtx ==
    IF producer.late_pc \in {"built", "moved", "reset"} THEN producer.old_ctx
    ELSE vconjunct_ctx_ptr

\* clone_vconjunct_ctx, line 1341: the test of the pointer, without the lock
CloneTest ==
    /\ ScannersRun /\ producer.clone_pc = "idle"
    /\ producer' = [producer EXCEPT
                       !.clone_pc = IF vconjunct_ctx_ptr # 0 THEN "locking" ELSE "done",
                       !.installed = InstalledCtx,
                       !.cloned = 0]
    /\ UNCHANGED <<enable_pipeline_exec, virt, now, filterVars, conjVars, scanVars>>

\* clone_vconjunct_ctx, lines 1342-1343: under the lock, the context the
\* pointer leads to is cloned
CloneUnderLock ==
    /\ producer.phase = "threads" /\ producer.clone_pc = "locking"
    /\ producer.rf_locks = "free"
    /\ producer' = [producer EXCEPT !.clone_pc = "done", !.cloned = vconjunct_ctx_ptr]
    /\ UNCHANGED <<enable_pipeline_exec, virt, now, filterVars, conjVars, scanVars>>

\* the scanner goes on with what it cloned; the next scanner starts
CloneReturn ==
    /\ producer.phase = "threads" /\ producer.clone_pc = "done"
    /\ producer' = [producer EXCEPT !.clone_pc = "idle", !.installed = 0, !.cloned = 0]
    /\ UNCHANGED <<enable_pipeline_exec, virt, now, filterVars, conjVars, scanVars>>

CloneNext ==
    \/ AllocResource
    \/ AcquireCheck
    \/ AcquireDecide
    \/ AcquireWaitForRf
    \/ AcquireOkAndOpen
    \/ RuntimeFiltersAreReadyOrTimeout
    \/ \E f \in Filters, payload \in Payloads : Update(f, payload)
    \/ Tick
    \/ LateFastPath
    \/ LateLockAndBuild
    \/ AppendMove
    \/ AppendReset
    \/ AppendStore
    \/ CloneTest
    \/ CloneUnderLock
    \/ CloneReturn

SpecClone == InitClone /\ [][CloneNext]_vars

\* the clone is over
CloneDone == producer.phase = "threads" /\ producer.clone_pc = "done"

\* C33: a scanner thread that calls clone_vconjunct_ctx while another is in
\* try_append_late_arrival_runtime_filter never dereferences a null or
\* moved-from context and always clones a fully built context: the one in
\* place before the append or the complete new one.
C33_CloneTakesWholeContext ==
    CloneDone =>
        /\ producer.cloned \in 0 .. Len(ctxs)
        /\ producer.cloned \in {producer.installed, vconjunct_ctx_ptr, producer.new_ctx}
        /\ producer.installed # 0 => producer.cloned # 0

\* what does hold: the pointer is dereferenced under the lock only, where it
\* leads to a context built in full
CloneDereferencesBuiltContext ==
    CloneDone => (producer.cloned = 0 \/ producer.cloned \in 1 .. Len(ctxs))

\* the test read the pointer between the move and the reset: nothing was
\* cloned though a context was in place before the append and one is after
CloneSkipped ==
    /\ CloneDone /\ producer.cloned = 0 /\ producer.installed # 0
    /\ producer.late_pc = "idle" /\ vconjunct_ctx_ptr # 0

\* the test read the cell not yet stored into and the clone, waiting for the
\* lock, took the new context
CloneTookNew ==
    /\ CloneDone /\ producer.cloned = producer.new_ctx
    /\ producer.cloned # producer.installed

(***************************************************************************)
(* The loops over the values of an IN list: lines 850-861 of               *)
(* _normalize_in_and_eq_predicate and lines 926-941 of                     *)
(* _normalize_not_in_and_not_eq_predicate, one pass of the loop body per   *)
(* step. producer holds the loop:                                          *)
(*   loop      which of the two loops runs                                 *)
(*   items     what the iterator of the hybrid set yields, NullV for a     *)
(*             null value                                                  *)
(*   pos       the iterator (Len(items) + 1: has_next() is false)          *)
(*   is_fixed  is_fixed_range                                              *)
(*   range     the range the loop writes (temp_range, range or             *)
(*             not_in_range)                                               *)
(*   done      the loop was left                                           *)
(***************************************************************************)
\* the longest list of values an iterator yields
MaxIter == 3

\* the fixed-value range {0, 1} of a column an earlier IN narrowed
NarrowedRange == [fixed |-> TRUE, vals |-> {0, 1}, contain_null |-> FALSE]

InitLoop ==
    /\ InitScan
    /\ enable_pipeline_exec = FALSE
    /\ virt = The(ScanVirtProfiles)
    /\ ctxs = <<>>
    /\ \E loop \in {"in", "not_in"}, items \in SeqsUpTo(Vals \cup {NullV}, MaxIter),
          is_fixed \in BOOLEAN :
          producer = [phase |-> "loop", loop |-> loop, items |-> items, pos |-> 1,
                      is_fixed |-> is_fixed /\ loop = "not_in",
                      range |-> IF is_fixed /\ loop = "not_in" THEN NarrowedRange
                                ELSE create_empty_column_value_range,
                      done |-> FALSE]

has_next == producer.pos <= Len(producer.items)

get_value == producer.items[producer.pos]

\* one pass of the body of the loop of lines 850-861
InLoopBody ==
    /\ producer.phase = "loop" /\ producer.loop = "in" /\ ~producer.done
    /\ has_next
    /\ IF get_value = NullV
       THEN producer' = [producer EXCEPT !.pos = @ + 1]
       ELSE producer' = [producer EXCEPT !.range = add_fixed_value_range(@, get_value),
                                         !.pos = @ + 1]
    /\ UNCHANGED <<enable_pipeline_exec, virt, now, filterVars, conjVars, scanVars>>

\* one pass of the body of the loop of lines 926-941: on a null value the
\* body continues without iter->next()
NotInLoopBody ==
    /\ producer.phase = "loop" /\ producer.loop = "not_in" /\ ~producer.done
    /\ has_next
    /\ IF get_value = NullV
       THEN UNCHANGED producer
       ELSE IF producer.is_fixed
       THEN producer' = [producer EXCEPT !.range = remove_fixed_value_range(@, get_value),
                                         !.pos = @ + 1]
       ELSE producer' = [producer EXCEPT !.range = add_fixed_value_range(@, get_value),
                                         !.pos = @ + 1]
    /\ UNCHANGED <<enable_pipeline_exec, virt, now, filterVars, conjVars, scanVars>>

\* has_next() is false: the loop is left
LoopExit ==
    /\ producer.phase = "loop" /\ ~producer.done
    /\ ~has_next
    /\ producer' = [producer EXCEPT !.done = TRUE]
    /\ UNCHANGED <<enable_pipeline_exec, virt, now, filterVars, conjVars, scanVars>>

LoopNext == InLoopBody \/ NotInLoopBody \/ LoopExit

\* the thread in the loop keeps running
SpecLoop == InitLoop /\ [][LoopNext]_vars /\ WF_vars(LoopNext)

\* C34: normalization of a NOT IN predicate terminates for every value set:
\* the loop over the set's values finishes after finitely many steps, also
\* when the iterator yields a null value.
C34_NotInLoopTerminates ==
    (producer.phase = "loop" /\ producer.loop = "not_in") ~> producer.done

\* the loop of the IN predicate does finish, null values or not
InLoopTerminates ==
    (producer.phase = "loop" /\ producer.loop = "in") ~> producer.done

\* the NOT IN loop finishes when the iterator yields no null value
NotInLoopTerminatesWithoutNull ==
    (/\ producer.phase = "loop" /\ producer.loop = "not_in"
     /\ \A i \in 1 .. Len(producer.items) : producer.items[i] # NullV) ~> producer.done

\* the NOT IN loop at a null value: the pass leaves the iterator where it is
NotInLoopAtNull ==
    /\ producer.phase = "loop" /\ producer.loop = "not_in"
    /\ has_next /\ get_value = NullV

(***************************************************************************)
(* NOT IN with NULL among the values.                                      *)
(***************************************************************************)
\* the last leaf is c NOT IN (.., NULL)
LastIsNotInWithNull == LastIsNotIn /\ LastLeaf.null_in_set

\* C35: a NOT IN predicate whose value set contains NULL can match no row,
\* so normalizing it always marks the scan EOF, both when the column's
\* current value range is a fixed-value set and when it is not.
C35_NotInWithNullIsEof == LastIsNotInWithNull => sinks.eos

\* the half that holds: on a range that is not a fixed-value set the scan is
\* marked EOF
NotInWithNullIsEofUnlessFixed ==
    (LastIsNotInWithNull /\ ~is_fixed_value_range(RangeBefore)) => sinks.eos

\* c IN (0, 1) AND c NOT IN (1, NULL) on a key column: the range of c is the
\* fixed value 0, the scan is not at EOF, nothing is left of the tree and a
\* row is emitted that the conjuncts refuse
NotInWithNullEmitsRow ==
    /\ LastIsNotInWithNull /\ is_fixed_value_range(RangeBefore)
    /\ ~sinks.eos /\ ~InResidual(LastLeaf)
    /\ \E row \in ScannerBlock : ~TreeAccepts(orig_root, row)

(***************************************************************************)
(* _change_value_range on a DATE column. The column holds dates, the       *)
(* datetimes at midnight; a literal is any datetime. producer holds one    *)
(* predicate on the column and the column's value range:                   *)
(*   node, fn, slot_ref_child, lit   a comparison with the literal lit     *)
(*   node, lits                      an IN list                            *)
(*   range                           the column's value range              *)
(*   applied                         the predicate has been normalized     *)
(***************************************************************************)
\* the values of a DATE column
Dates == {v \in Vals : v % DayLen = 0}

\* VecDateTimeValue::check_loss_accuracy_cast_to_date: the value has a time
\* part (the call leaves the value cast to date)
check_loss_accuracy_cast_to_date(v) == v % DayLen # 0

\* operator++ of a value cast to date: the next day
NextDay(v) == v + DayLen

\* _change_value_range<false, TYPE_DATE> with add_value_range (lines 1260-1268)
change_value_range_date(range, value, fn_name, slot_ref_child) ==
    LET day == DateOf(value)
        tmp_value == IF check_loss_accuracy_cast_to_date(value) /\ fn_name \in {"lt", "ge"}
                     THEN NextDay(day) ELSE day
    IN add_value_range(range, to_olap_filter_type(fn_name, slot_ref_child = 1), tmp_value)

\* _change_value_range<true, TYPE_DATE> with add_fixed_value_range (lines 1254-1259)
change_fixed_value_range_date(temp_range, value) ==
    IF ~check_loss_accuracy_cast_to_date(value) THEN add_fixed_value_range(temp_range, value)
    ELSE temp_range

\* the loop of _normalize_in_and_eq_predicate over the values of an IN list
RECURSIVE FixedDateRangeOf(_, _)
FixedDateRangeOf(temp_range, vs) ==
    IF vs = {} THEN temp_range
    ELSE LET v == CHOOSE x \in vs : TRUE
         IN FixedDateRangeOf(change_fixed_value_range_date(temp_range, v), vs \ {v})

\* the range of the DATE column after the predicate p was normalized
NormalizedDateRange(p) ==
    IF p.node = "IN_PRED"
    THEN intersection(p.range, FixedDateRangeOf(create_empty_column_value_range, p.lits))
    ELSE IF p.fn = "eq"
    THEN intersection(p.range,
                      change_fixed_value_range_date(create_empty_column_value_range, p.lit))
    ELSE change_value_range_date(p.range, p.lit, p.fn, p.slot_ref_child)

InitDate ==
    /\ InitScan
    /\ enable_pipeline_exec = FALSE
    /\ virt = The(ScanVirtProfiles)
    /\ ctxs = <<>>
    /\ \E nullable \in BOOLEAN :
          \/ \E fn \in {"lt", "le", "gt", "ge", "eq"}, child \in {0, 1}, lit \in Vals :
                producer = [phase |-> "date", node |-> "BINARY_PRED", fn |-> fn,
                            slot_ref_child |-> child, lit |-> lit, lits |-> {},
                            range |-> WholeRange(nullable), applied |-> FALSE]
          \/ \E lits \in SUBSET Vals :
                producer = [phase |-> "date", node |-> "IN_PRED", fn |-> "in",
                            slot_ref_child |-> 0, lit |-> 0, lits |-> lits,
                            range |-> WholeRange(nullable), applied |-> FALSE]

\* the predicate is normalized
NormalizeDatePredicate ==
    /\ producer.phase = "date" /\ ~producer.applied
    /\ producer' = [producer EXCEPT !.range = NormalizedDateRange(producer), !.applied = TRUE]
    /\ UNCHANGED <<enable_pipeline_exec, virt, now, filterVars, conjVars, scanVars>>

SpecDate == InitDate /\ [][NormalizeDatePredicate]_vars

\* whether the date d satisfies the predicate p
DateSatisfies(p, d) ==
    IF p.node = "IN_PRED" THEN d \in p.lits
    ELSE IF p.slot_ref_child = 0 THEN Compare(p.fn, d, p.lit)
    ELSE Compare(p.fn, p.lit, d)

\* the predicate has a literal with a time part
HasTimePart(p) ==
    IF p.node = "IN_PRED" THEN \E v \in p.lits : check_loss_accuracy_cast_to_date(v)
    ELSE check_loss_accuracy_cast_to_date(p.lit)

\* the normalized range accepts exactly the dates that satisfy the predicate
DateRangeExact ==
    {d \in Dates : RangeAccepts(producer.range, d)} = {d \in Dates : DateSatisfies(producer, d)}

\* C36: for a DATE column compared with a datetime literal that has a time
\* part, the value range _change_value_range produces accepts exactly the
\* dates satisfying the comparison, for <, <=, >, >= and both operand
\* orders; for = and IN such a literal adds no value.
C36_DateRangeMatchesComparison ==
    (producer.phase = "date" /\ producer.applied /\ HasTimePart(producer)) => DateRangeExact

\* the half that holds: the column on the left, and = and IN
DateRangeExactColumnLeft ==
    (producer.phase = "date" /\ producer.applied /\ producer.slot_ref_child = 0)
        => DateRangeExact

\* 1 < d on the dates 0 and 2: the range is d > 2 and refuses the date 2
DateRangeLosesDay ==
    /\ producer.phase = "date" /\ producer.applied
    /\ producer.fn = "lt" /\ producer.slot_ref_child = 1
    /\ HasTimePart(producer)
    /\ \E d \in Dates : DateSatisfies(producer, d) /\ ~RangeAccepts(producer.range, d)

\* 1 <= d on the dates 0 and 2: the range is d >= 0 and accepts the date 0
DateRangeTakesDay ==
    /\ producer.phase = "date" /\ producer.applied
    /\ producer.fn = "le" /\ producer.slot_ref_child = 1
    /\ HasTimePart(producer)
    /\ \E d \in Dates : ~DateSatisfies(producer, d) /\ RangeAccepts(producer.range, d)

(***************************************************************************)
(* What try_append_late_arrival_runtime_filter reports.                    *)
(***************************************************************************)
\* filter f is applied: its mark is set and its predicate is in the tree the
\* conjuncts were normalized from, or in the tree in place
ActuallyApplied(f) ==
    /\ apply_mark[f]
    /\ f \in rf_vexpr_set
    /\ f \in FiltersIn(orig_root) \cup FiltersIn(RootOf(ConjState))

\* a call of try_append_late_arrival_runtime_filter can run
LateCallEnabled == scan_pc = "opened" /\ scanner_ctx

\* C37: whenever try_append_late_arrival_runtime_filter reports the number
\* of subscribed filters, through the fast path of _is_all_rf_applied too,
\* every subscribed filter is applied; the number reported never exceeds the
\* number of subscribed filters and never decreases between calls.
C37_ArrivedAllMeansAllApplied ==
    /\ []((LateCallEnabled /\ is_all_rf_applied) => \A f \in Filters : ActuallyApplied(f))
    /\ [](arrived_rf_num = NumFilters => \A f \in Filters : ActuallyApplied(f))
    /\ [](arrived_rf_num \in 0 .. NumFilters)
    /\ [][arrived_rf_num' >= arrived_rf_num]_vars

\* a call found every filter marked by the acquisition and took the fast
\* path, and an earlier or later call reported a part of the filters
C37_Witness ==
    /\ LateCallEnabled
    /\ is_all_rf_applied
    /\ arrived_rf_num = NumFilters
    /\ \A f \in Filters : ActuallyApplied(f)
    /\ FiltersIn(RootOf(ConjState)) # {}

\* a call reported less than the subscribed filters: one of them timed out
LateCallReportsPart ==
    /\ LateCallEnabled
    /\ ~is_all_rf_applied
    /\ arrived_rf_num \in 1 .. NumFilters - 1
    /\ \E f \in Filters : current_state(f) = "TIME_OUT"

(***************************************************************************)
(* ExportMgr. Two frontends keep an ExportMgr each: the master takes       *)
(* addExportJob and writes the edit log, the other replays the log. Each   *)
(* runs removeOldExportJobs on its own, and removals are not logged.       *)
(* producer holds:                                                         *)
(*   master                the frontend that is master                     *)
(*   nextId                Env.getNextId                                   *)
(*   clock                 System.currentTimeMillis                        *)
(*   log                   the edit log                                    *)
(*   replayed[n]           how much of the log frontend n holds            *)
(*   idToJob[n]            job id -> job (label, state, createTimeMs,      *)
(*                         showable to the user that asks)                 *)
(*   labelToJobId[n]       label -> job id, 0 where the label is not a key *)
(*   added                 what the last addExportJob did                  *)
(*   result                what the last getExportJobInfos returned        *)
(***************************************************************************)
Frontends == {1, 2}

\* the number of job ids Env.getNextId hands out
MaxJobs == 3

JobIds == 1 .. MaxJobs

ExportLabels == {"a", "b"}

\* the last reading of the clock, in seconds
MaxClock == 1

\* Config.history_job_keep_max_second
history_job_keep_max_second == 0

\* the largest limit asked
MaxLimit == 2

\* Integer.MAX_VALUE
IntegerMaxValue == 2147483647

FinalStates == {"FINISHED", "CANCELLED"}

NoAdd == [id |-> 0, label |-> "", outcome |-> "none", in_use |-> FALSE]

NoResult == [limit |-> -1, rows |-> <<>>, showable |-> 0]

InitExport ==
    /\ InitScan
    /\ enable_pipeline_exec = FALSE
    /\ virt = The(ScanVirtProfiles)
    /\ ctxs = <<>>
    /\ producer = [phase |-> "export", master |-> 1, nextId |-> 1, clock |-> 0, log |-> <<>>,
                   replayed |-> [n \in Frontends |-> 0],
                   idToJob |-> [n \in Frontends |-> <<>>],
                   labelToJobId |-> [n \in Frontends |-> [l \in ExportLabels |-> 0]],
                   added |-> NoAdd, result |-> NoResult]

ExportUnchanged == UNCHANGED <<enable_pipeline_exec, virt, now, filterVars, conjVars, scanVars>>

\* Map.put
MapPut(m, k, v) == [x \in DOMAIN m \cup {k} |-> IF x = k THEN v ELSE m[x]]

\* Map.remove(key)
MapRemove(m, k) == [x \in DOMAIN m \ {k} |-> m[x]]

\* unprotectAddJob: put, and putIfAbsent
unprotectAddJob(n, id, job) ==
    [producer EXCEPT !.idToJob[n] = MapPut(@, id, job),
                     !.labelToJobId[n][job.label] = IF @ = 0 THEN id ELSE @]

\* a job of idToJob of frontend n uses the label
LabelInUse(n, label) ==
    \E id \in DOMAIN producer.idToJob[n] : producer.idToJob[n][id].label = label

\* addExportJob on the master
addExportJob(label, showable) ==
    /\ producer.phase = "export"
    /\ producer.nextId <= MaxJobs
    /\ LET n == producer.master
           jobId == producer.nextId
           job == [label |-> label, state |-> "PENDING", createTimeMs |-> producer.clock,
                   showable |-> showable]
       IN IF producer.labelToJobId[n][label] # 0
          THEN producer' = [producer EXCEPT !.nextId = jobId + 1,
                               !.added = [id |-> jobId, label |-> label,
                                          outcome |-> "LabelAlreadyUsedException",
                                          in_use |-> LabelInUse(n, label)]]
          ELSE producer' = [unprotectAddJob(n, jobId, job) EXCEPT
                               !.nextId = jobId + 1,
                               !.log = Append(@, [op |-> "create", id |-> jobId, job |-> job]),
                               !.replayed[n] = @ + 1,
                               !.added = [id |-> jobId, label |-> label, outcome |-> "added",
                                          in_use |-> LabelInUse(n, label)]]
    /\ ExportUnchanged

\* a job reaches a final state on the master, which logs the new state
ExportJobEnds(id, state) ==
    /\ producer.phase = "export"
    /\ LET n == producer.master
       IN /\ id \in DOMAIN producer.idToJob[n]
          /\ producer.idToJob[n][id].state = "PENDING"
          /\ producer' = [producer EXCEPT !.idToJob[n][id].state = state,
                             !.log = Append(@, [op |-> "state", id |-> id, state |-> state]),
                             !.replayed[n] = @ + 1]
    /\ ExportUnchanged

\* the other frontend replays the next entry of the edit log:
\* replayCreateExportJob or replayUpdateJobState
ExportReplay(n) ==
    /\ producer.phase = "export"
    /\ n # producer.master
    /\ producer.replayed[n] < Len(producer.log)
    /\ LET e == producer.log[producer.replayed[n] + 1]
       IN IF e.op = "create"
          THEN producer' = [unprotectAddJob(n, e.id, e.job) EXCEPT !.replayed[n] = @ + 1]
          ELSE producer' = [producer EXCEPT !.idToJob[n][e.id].state = e.state,
                                            !.replayed[n] = @ + 1]
    /\ ExportUnchanged

\* the other frontend has replayed the whole log and becomes the master
ExportFailover ==
    /\ producer.phase = "export"
    /\ \E n \in Frontends \ {producer.master} :
          /\ producer.replayed[n] = Len(producer.log)
          /\ producer' = [producer EXCEPT !.master = n]
    /\ ExportUnchanged

\* a second passes
ExportTick ==
    /\ producer.phase = "export"
    /\ producer.clock < MaxClock * 1000
    /\ producer' = [producer EXCEPT !.clock = @ + 1000]
    /\ ExportUnchanged

\* the test of removeOldExportJobs (lines 379-381)
IsOldExportJob(job, currentTimeMs) ==
    /\ (currentTimeMs - job.createTimeMs) \div 1000 > history_job_keep_max_second
    /\ job.state \in FinalStates

\* removeOldExportJobs of frontend n: iter.remove() and
\* labelToJobId.remove(label, id) for every old job
removeOldExportJobs(n) ==
    /\ producer.phase = "export"
    /\ LET m == producer.idToJob[n]
           old == {id \in DOMAIN m : IsOldExportJob(m[id], producer.clock)}
       IN /\ old # {}
          /\ producer' = [producer EXCEPT
                !.idToJob[n] = [x \in DOMAIN m \ old |-> m[x]],
                !.labelToJobId[n] = [l \in ExportLabels |->
                                        IF \E id \in old : m[id].label = l /\ @[l] = id
                                        THEN 0 ELSE @[l]]]
    /\ ExportUnchanged

\* the orders idToJob.values() can iterate in
IterationOrders(m) ==
    {q \in SeqsUpTo(DOMAIN m, Cardinality(DOMAIN m)) :
        Len(q) = Cardinality(DOMAIN m) /\ Range(q) = DOMAIN m}

\* the loop of getExportJobInfos (lines 271-280) from position i of the order
RECURSIVE ExportInfoLoop(_, _, _, _, _, _)
ExportInfoLoop(m, order, i, counter, infos, resultNum) ==
    IF i > Len(order) THEN infos
    ELSE LET added == IF m[order[i]].showable THEN infos \cup {order[i]} ELSE infos
         IN IF counter + 1 >= resultNum THEN added
            ELSE ExportInfoLoop(m, order, i + 1, counter + 1, added, resultNum)

\* Collections.sort by id ascending
RECURSIVE SortById(_)
SortById(ids) ==
    IF ids = {} THEN <<>>
    ELSE LET least == CHOOSE x \in ids : \A y \in ids : x <= y
         IN <<least>> \o SortById(ids \ {least})

ShowableJobs(m) == {id \in DOMAIN m : m[id].showable}

\* getExportJobInfos(limit) on the master
getExportJobInfos(limit) ==
    /\ producer.phase = "export"
    /\ LET m == producer.idToJob[producer.master]
           resultNum == IF limit = -1 THEN IntegerMaxValue ELSE limit
       IN \E order \in IterationOrders(m) :
             producer' = [producer EXCEPT
                 !.result = [limit |-> limit,
                             rows |-> SortById(ExportInfoLoop(m, order, 1, 0, {}, resultNum)),
                             showable |-> Cardinality(ShowableJobs(m))]]
    /\ ExportUnchanged

\* the jobs a frontend stores: every job is showable to the user that asks
ExportNext ==
    \/ \E label \in ExportLabels : addExportJob(label, TRUE)
    \/ \E id \in JobIds, state \in FinalStates : ExportJobEnds(id, state)
    \/ \E n \in Frontends : ExportReplay(n)
    \/ ExportFailover
    \/ ExportTick
    \/ \E n \in Frontends : removeOldExportJobs(n)

SpecExport == InitExport /\ [][ExportNext]_vars

\* the jobs a user is shown: one frontend, and jobs of tables the user may
\* or may not see
ShowNext ==
    \/ \E label \in ExportLabels, showable \in BOOLEAN : addExportJob(label, showable)
    \/ \E id \in JobIds, state \in FinalStates : ExportJobEnds(id, state)
    \/ ExportTick
    \/ removeOldExportJobs(producer.master)
    \/ \E limit \in -1 .. MaxLimit : getExportJobInfos(limit)

SpecShow == InitExport /\ [][ShowNext]_vars

\* every job of idToJob has its label among the keys of labelToJobId
LabelsOfStoredJobsKept(n) ==
    \A id \in DOMAIN producer.idToJob[n] :
        producer.labelToJobId[n][producer.idToJob[n][id].label] # 0

\* C38: export job labels stay unique among stored jobs: after any sequence
\* of addExportJob, replayCreateExportJob and removeOldExportJobs every job
\* in idToJob has its label in labelToJobId, so addExportJob never succeeds
\* with a label a job in idToJob uses.
C38_StoredLabelsStayUnique ==
    producer.phase = "export" =>
        /\ \A n \in Frontends : LabelsOfStoredJobsKept(n)
        /\ ~(producer.added.outcome = "added" /\ producer.added.in_use)

\* what holds: a key of labelToJobId names a stored job of that label
LabelKeysNameStoredJobs ==
    producer.phase = "export" =>
        \A n \in Frontends, l \in ExportLabels :
            producer.labelToJobId[n][l] # 0 =>
                /\ producer.labelToJobId[n][l] \in DOMAIN producer.idToJob[n]
                /\ producer.idToJob[n][producer.labelToJobId[n][l]].label = l

\* a frontend replayed two jobs of one label, removed the older one, and
\* holds the younger one without its label
StoredJobLostLabel ==
    /\ producer.phase = "export"
    /\ \E n \in Frontends, id \in JobIds :
          /\ id \in DOMAIN producer.idToJob[n]
          /\ producer.idToJob[n][id].state = "PENDING"
          /\ producer.labelToJobId[n][producer.idToJob[n][id].label] = 0

\* addExportJob succeeded with a label a stored job uses
AddedLabelInUse ==
    /\ producer.phase = "export"
    /\ producer.added.outcome = "added" /\ producer.added.in_use

\* C39: getExportJobInfos(limit) with limit >= 0 returns exactly
\* min(limit, number of showable jobs) rows, all showable jobs when limit is
\* -1: never more than limit rows, and the jobs the caller may not see do
\* not reduce the number of showable jobs returned.
C39_ReturnsMinOfLimitAndShowable ==
    producer.phase = "export" =>
        Len(producer.result.rows) =
            IF producer.result.limit = -1 THEN producer.result.showable
            ELSE Min(producer.result.limit, producer.result.showable)

\* what holds: without a limit every showable job is returned, and with a
\* limit of one or more never more rows than the limit
ReturnsAllWithoutLimit ==
    producer.phase = "export" =>
        /\ producer.result.limit = -1 => Len(producer.result.rows) = producer.result.showable
        /\ producer.result.limit >= 1 => Len(producer.result.rows) <= producer.result.limit
        /\ Len(producer.result.rows) <= producer.result.showable

\* a limit of 0 returned a row
LimitZeroReturnsRow ==
    /\ producer.phase = "export"
    /\ producer.result.limit = 0
    /\ Len(producer.result.rows) = 1

\* a job the caller may not see took the place of a showable one
HiddenJobCounted ==
    /\ producer.phase = "export"
    /\ producer.result.limit = 1
    /\ producer.result.showable >= 1
    /\ producer.result.rows = <<>>

====
